---- MODULE Spec2Model ----
(***************************************************************************)
(* Flask-IRC: the connection engine of flask_irc/bot.py (class Bot), the   *)
(* line parser (IRCMessage), the command table (structs.CommandStorage)    *)
(* and the module registry (Bot._register_module/_unregister_module).      *)
(*                                                                         *)
(* The byte stream is modelled in units: a unit is one byte or an          *)
(* unsplittable run of bytes without space, colon, CR or LF ("PING",       *)
(* "NICK FlaskBot" on the way out).  Chunking and partial sends split the  *)
(* stream between units.  A two-byte UTF-8 character is two units.         *)
(***************************************************************************)
EXTENDS Integers, Sequences, FiniteSets, TLC

\* ------------------------------------------------------------------ bounds
\* lines the peer may send on one connection
MaxPeerLines == 2
\* handlers the application registers with Bot.on() before run()
MaxUserHandlers == 1
\* bind/remote candidate pairs that getaddrinfo() may yield
MaxPairs == 2
\* the instances of one module name: reloads stop at this number
MaxVer == 2

\* --------------------------------------------------------------- constants
\* sock.recv(1024)
RecvSize == 1024

\* None, where the code holds a string or None
None == <<"<None>">>
\* Bot.watcher = None
NoWatcher == [obj |-> FALSE, events |-> {}, active |-> FALSE]
EV_READ == "R"
EV_WRITE == "W"

CR == "\r"
LF == "\n"
\* the '\r\n' that Bot.send appends, one unit on the way out
CRLF == "\r\n"
SP == " "
COLON == ":"

VARIABLES
    loop,        \* pyev loop: "init" (before run), "running", "stopped"
    debug,       \* loop.debug (= app.debug): "on", "off"; "unset" until it is first read
    sock,        \* Bot.sock: TRUE when a socket object is held, FALSE for None
    watcher,     \* Bot.watcher: NoWatcher or the pyev.Io [obj, events, active]
    stop_loop,   \* Bot._stop_loop
    writebuf,    \* Bot._writebuf
    readbuf,     \* Bot._readbuf
    nick,        \* Bot.nick
    server,      \* Bot.server
    ready,       \* Bot.ready
    tmr,         \* Bot._reconnect_tmr is active
    sigw,        \* the signal watchers of run() are active
    handlers,    \* Bot._handlers: command -> list of handlers
    net,         \* bytes the peer has sent and recv() has not returned yet
    npeer,       \* lines the peer has sent on this connection
    queued,      \* history: bytes appended to _writebuf since the last close
    wire,        \* history: bytes sock.send() accepted since the last close
    log,         \* history: what the last callback did, in order
    lastData,    \* history: _readbuf + buf of the last successful recv()
    lastExc,     \* history: the exception that escaped the last callback
    stoppedBy,   \* history: which call stopped the loop
    readyCalled, \* history: trigger_ready() was called on the open connection
    modules,     \* Bot.modules: name -> the registered module instance
    commands,    \* Bot._commands._dict: key -> [name, owner]
    mhandlers,   \* Bot._module_handlers: module name -> list of (cmd, f)
    module_list, \* bot.py's module_list: name -> the instance load_module takes
    lastOp,      \* history: the last registry operation and its outcome
    IRC_TRIGGER, \* app.config['IRC_TRIGGER']: a string, or None
    timers,      \* Bot._timers: the pending timers of after(), each with its func
    confirm      \* the set that admin.g.confirm names

engineVars == <<loop, debug, sock, watcher, stop_loop, writebuf, readbuf, nick,
                server, ready, tmr, sigw, net, npeer, queued, wire, log,
                lastData, lastExc, stoppedBy, readyCalled>>
registryVars == <<modules, commands, mhandlers, module_list, lastOp>>
adminVars == <<timers, confirm>>
vars == <<engineVars, handlers, registryVars, IRC_TRIGGER, adminVars>>

\* ----------------------------------------------------------------- helpers
Min(a, b) == IF a < b THEN a ELSE b

Last(s) == s[Len(s)]

RECURSIVE Flatten(_)
Flatten(ss) == IF ss = <<>> THEN <<>> ELSE Head(ss) \o Flatten(Tail(ss))

\* s.index(x): the first position of x in s, 0 when absent
IndexOf(s, x) ==
    IF \E i \in 1..Len(s) : s[i] = x
    THEN CHOOSE i \in 1..Len(s) : s[i] = x /\ \A j \in 1..(i - 1) : s[j] # x
    ELSE 0

\* d.get(k, []) on a dict modelled as a function
Get(d, k) == IF k \in DOMAIN d THEN d[k] ELSE <<>>

\* d with d[k] = v (the key added when absent)
Put(d, k, v) == [x \in DOMAIN d \cup {k} |-> IF x = k THEN v ELSE d[x]]

\* s.split(' ')
RECURSIVE Split(_, _)
Split(s, sep) ==
    LET i == IndexOf(s, sep)
    IN IF i = 0 THEN <<s>>
       ELSE <<SubSeq(s, 1, i - 1)>> \o Split(SubSeq(s, i + 1, Len(s)), sep)

\* ' '.join(words)
RECURSIVE Join(_, _)
Join(words, sep) ==
    IF words = <<>> THEN <<>>
    ELSE IF Len(words) = 1 THEN words[1]
    ELSE words[1] \o <<sep>> \o Join(Tail(words), sep)

\* s.rstrip('\r')
RECURSIVE RStripCR(_)
RStripCR(s) ==
    IF s # <<>> /\ Last(s) = CR THEN RStripCR(SubSeq(s, 1, Len(s) - 1)) ELSE s

\* ------------------------------------------------------------------- codec
\* The bytes above 0x7f that occur in the model.
B_C3 == "C3"
B_A9 == "A9"
B_83 == "83"
B_C2 == "C2"

\* word.decode('utf-8') succeeds: every lead byte C3 is followed by the
\* continuation byte A9 and no continuation byte stands alone
RECURSIVE ValidUtf8(_)
ValidUtf8(w) ==
    IF w = <<>> THEN TRUE
    ELSE IF w[1] = B_C3 THEN Len(w) >= 2 /\ w[2] = B_A9 /\ ValidUtf8(SubSeq(w, 3, Len(w)))
    ELSE IF w[1] \in {B_A9, B_83, B_C2} THEN FALSE
    ELSE ValidUtf8(Tail(w))

RECURSIVE DecodeUtf8(_)
DecodeUtf8(w) ==
    IF w = <<>> THEN <<>>
    ELSE IF w[1] = B_C3 THEN <<"é">> \o DecodeUtf8(SubSeq(w, 3, Len(w)))
    ELSE <<w[1]>> \o DecodeUtf8(Tail(w))

\* word.decode('windows-1252'): one character per byte
Cp1252(b) ==
    CASE b = B_C3 -> "Ã"
      [] b = B_A9 -> "©"
      [] b = B_C2 -> "Â"
      [] b = B_83 -> "ƒ"
      [] OTHER -> b

\* utils._to_unicode: the first codec of CODECS that decodes the word
ToUnicodeWord(w) ==
    IF ValidUtf8(w) THEN DecodeUtf8(w) ELSE [i \in 1..Len(w) |-> Cp1252(w[i])]

\* utils.to_unicode: word by word, re-joined with spaces
ToUnicode(s) ==
    LET ws == Split(s, SP)
    IN Join([i \in 1..Len(ws) |-> ToUnicodeWord(ws[i])], SP)

\* line.encode('utf-8') of Bot.send
Utf8Char(c) ==
    CASE c = "é" -> <<B_C3, B_A9>>
      [] c = "Ã" -> <<B_C3, B_83>>
      [] c = "©" -> <<B_C2, B_A9>>
      [] OTHER -> <<c>>

EncodeUtf8(line) == Flatten([i \in 1..Len(line) |-> Utf8Char(line[i])])

\* unicode.upper() on the units of a command token
UpperUnit(c) ==
    CASE c = "ping" -> "PING"
      [] c = "x" -> "X"
      [] c = "error" -> "ERROR"
      [] OTHER -> c

Upper(w) == [i \in 1..Len(w) |-> UpperUnit(w[i])]

\* s.split(' ', 1): <<head, rest>>, or <<s>> when s holds no space
Split1(s, sep) ==
    LET i == IndexOf(s, sep)
    IN IF i = 0 THEN <<s>> ELSE <<SubSeq(s, 1, i - 1), SubSeq(s, i + 1, Len(s))>>

\* the first position i with s[i] = ' ' and s[i+1] = ':', 0 when absent
IndexSpColon(s) ==
    IF \E i \in 1..(Len(s) - 1) : s[i] = SP /\ s[i + 1] = COLON
    THEN CHOOSE i \in 1..(Len(s) - 1) :
            /\ s[i] = SP /\ s[i + 1] = COLON
            /\ \A j \in 1..(i - 1) : ~(s[j] = SP /\ s[j + 1] = COLON)
    ELSE 0

\* IRCSourceNone()
IRCSourceNone == [source |-> None, complete |-> FALSE, nick |-> None,
                  ident |-> None, host |-> None, err |-> "none"]

\* IRCSource(source); err is the exception its constructor raises
IRCSource(source) ==
    IF IndexOf(source, "!") # 0
    THEN LET nh == Split1(source, "!")
             ih == Split1(nh[2], "@")
         IN IF Len(ih) = 2
            THEN [source |-> source, complete |-> TRUE, nick |-> nh[1],
                  ident |-> ih[1], host |-> ih[2], err |-> "none"]
            ELSE [source |-> source, complete |-> TRUE, nick |-> nh[1],
                  ident |-> None, host |-> None, err |-> "ValueError"]
    ELSE [source |-> source, complete |-> FALSE, nick |-> source,
          ident |-> None, host |-> None, err |-> "none"]

\* str(source)
SourceStr(src) ==
    IF src.source = None THEN <<>>
    ELSE IF src.complete THEN src.nick \o <<"!">> \o src.ident \o <<"@">> \o src.host
    ELSE src.nick

\* the arguments of a message: the text after the command token
MsgArgs(rest) ==
    IF rest # <<>> /\ rest[1] = COLON THEN <<Tail(rest)>>
    ELSE LET i == IndexSpColon(rest)
         IN IF i # 0
            THEN Split(SubSeq(rest, 1, i - 1), SP) \o <<SubSeq(rest, i + 2, Len(rest))>>
            ELSE Split(rest, SP)

ParseFail(e) == [err |-> e, source |-> IRCSourceNone, cmd |-> <<>>, args |-> <<>>]

\* IRCMessage(line) of bot.py; err is the exception the constructor raises
IRCMessage(raw) ==
    LET line == ToUnicode(raw)
    IN IF line = <<>> THEN ParseFail("IndexError")
       ELSE LET prefixed == line[1] = COLON
                sp == IF prefixed THEN Split1(Tail(line), SP) ELSE <<<<>>, line>>
            IN IF Len(sp) < 2 THEN ParseFail("ValueError")
               ELSE LET src == IF prefixed THEN IRCSource(sp[1]) ELSE IRCSourceNone
                        cl == Split1(sp[2], SP)
                    IN IF src.err # "none" THEN ParseFail(src.err)
                       ELSE IF Len(cl) < 2 THEN ParseFail("ValueError")
                       ELSE [err |-> "none", source |-> src, cmd |-> Upper(cl[1]),
                             args |-> MsgArgs(cl[2])]
\* ------------------------------------------------------------ configuration
\* app.config['IRC_RECONNECT_DELAY']
IRC_RECONNECT_DELAY == 2
\* app.config['IRC_SERVER_PASS'], None by default
IRC_SERVER_PASS == None

CONNECT == "connect"
DISCONNECT == "disconnect"
READY == "ready"
TERMINATE == "terminate"
BEFORE_COMMAND == "before_command"

NICK_LINE == <<"NICK FlaskBot">>
USER_LINE == <<"USER FlaskBot * * :FlaskBot">>

\* ------------------------------------------------------------ the bot state
\* The state of the bot while one callback runs; exc is the exception that is
\* propagating ("none": none), and every step is skipped while one propagates.
Cur == [loop |-> loop, debug |-> debug, sock |-> sock, watcher |-> watcher,
        stop_loop |-> stop_loop, writebuf |-> writebuf, readbuf |-> readbuf,
        nick |-> nick, server |-> server, ready |-> ready, tmr |-> tmr,
        sigw |-> sigw, handlers |-> handlers, net |-> net, npeer |-> npeer,
        queued |-> queued, wire |-> wire, log |-> <<>>,
        lastData |-> <<>>, stoppedBy |-> stoppedBy,
        readyCalled |-> readyCalled, modules |-> modules,
        commands |-> commands, mhandlers |-> mhandlers,
        module_list |-> module_list, timers |-> timers, confirm |-> confirm,
        ret |-> "none", exc |-> "none"]

Raise(s, e) == [s EXCEPT !.exc = e]

Entry(t, n, h) == [t |-> t, line |-> n, h |-> h]

Log(s, t, n, h) == [s EXCEPT !.log = Append(@, Entry(t, n, h))]

\* loop.stop()
LoopStop(s, by) ==
    IF s.exc # "none" THEN s ELSE [s EXCEPT !.loop = "stopped", !.stoppedBy = by]

\* the events of modules only
INIT == "init"
RELOAD == "reload"
UNLOAD == "unload"
\* the events Bot._trigger_event relays to the modules
COMMON_EVENTS == {CONNECT, DISCONNECT, READY, TERMINATE, INIT, RELOAD, UNLOAD}

\* the listeners the application has registered with bot.event(evt)
BotListeners(evt) ==
    CASE evt = READY -> <<"r1", "r2">>
      [] evt = BEFORE_COMMAND -> <<"bc1">>
      [] OTHER -> <<>>

\* for handler in self._events.get(evt, []): handler(*args)
RECURSIVE RunListeners(_, _)
RunListeners(s, ls) ==
    IF ls = <<>> THEN s ELSE RunListeners(Log(s, "listener", 0, Head(ls)), Tail(ls))

\* what the listener of a module instance for evt observes when it is called:
\* its instance, the event's argument, and whether bot.modules holds the
\* instance at that time
MEntry(s, inst, evt, arg) ==
    [t |-> "mevent", line |-> 0, h |-> evt, m |-> inst.name, ver |-> inst.ver,
     arg |-> arg,
     reg |-> inst.name \in DOMAIN s.modules /\ s.modules[inst.name].ver = inst.ver]

\* ----------------------------------------------------------- command table
\* unicode.lower() on the units of a command name
LowerUnit(c) ==
    CASE c = "Foo" -> "foo"
      [] c = "BAZ" -> "baz"
      [] c = "ON" -> "on"
      [] OTHER -> c

Lower(w) == [i \in 1..Len(w) |-> LowerUnit(w[i])]

\* CommandStorage._get_key: tuple(self._splitter(cmd.lower()))
GetKey(cmd) == Split(Lower(cmd), SP)

\* CommandStorage.__contains__
Contains(d, cmd) == GetKey(cmd) \in DOMAIN d

\* a __setitem__ that replaces the entry of a key that is present
SetItemOverwrite(d, cmd, value) == [err |-> "none", d |-> Put(d, GetKey(cmd), value)]

\* CommandStorage.__setitem__: [err, d]
SetItem(d, cmd, value) ==
    IF GetKey(cmd) \in DOMAIN d THEN [err |-> "ValueError", d |-> d]
    ELSE [err |-> "none", d |-> Put(d, GetKey(cmd), value)]

\* CommandStorage.__delitem__: [err, d]
DelItem(d, cmd) ==
    IF GetKey(cmd) \notin DOMAIN d THEN [err |-> "KeyError", d |-> d]
    ELSE [err |-> "none", d |-> [k \in DOMAIN d \ {GetKey(cmd)} |-> d[k]]]

\* a lookup that stops at the shortest registered prefix
LookupIndexShortest(d, parts, index) ==
    LET hits == {i \in 0..index : SubSeq(parts, 1, i) \in DOMAIN d}
    IN IF hits = {} THEN 0 ELSE CHOOSE i \in hits : \A j \in hits : i <= j

\* the index at which the for loop of CommandStorage.lookup stops
RECURSIVE LookupIndex(_, _, _)
LookupIndex(d, parts, index) ==
    IF index < 0 THEN 0
    ELSE IF SubSeq(parts, 1, index) \in DOMAIN d THEN index
    ELSE LookupIndex(d, parts, index - 1)

\* CommandStorage.lookup: [found, function, args]
Lookup(d, line) ==
    LET args == Split(line, SP)
        parts == GetKey(line)
        index == LookupIndex(d, parts, Len(parts))
        found == SubSeq(parts, 1, index) \in DOMAIN d
    IN [found |-> found,
        function |-> IF found THEN d[SubSeq(parts, 1, index)] ELSE [name |-> None, owner |-> "None"],
        args |-> SubSeq(args, index + 1, Len(args))]

\* ---------------------------------------------------------------- handlers
\* a handler: the object it is bound to and the function
Handler(owner, f) == [owner |-> owner, f |-> f]
H_ERROR == Handler("bot", "_handle_error")
H_PING == Handler("bot", "_handle_ping")
H_WELCOME == Handler("bot", "_handle_welcome")
H_PRIVMSG == Handler("bot", "_handle_privmsg")
\* application handlers: one answers with send(), one only looks
U_SEND == Handler("app", "u_send")
U_NOOP == Handler("app", "u_noop")
UserHandlers == {U_SEND, U_NOOP}
UserCommands == {<<"ERROR">>, <<"PING">>}

\* Bot.__init__: the internal handlers
InitHandlers ==
    (<<"ERROR">> :> <<H_ERROR>>) @@ (<<"PING">> :> <<H_PING>>)
    @@ (<<"001">> :> <<H_WELCOME>>) @@ (<<"PRIVMSG">> :> <<H_PRIVMSG>>)

\* the decorator of Bot.on: self._handlers.setdefault(cmd, []).append(f)
OnHandlers(hs, cmd, f) == Put(hs, cmd, Append(Get(hs, cmd), f))

\* The module instances that exist when the bot is made, BotModule.__init__:
\* name, the instance's number among the instances of that name, its state
\* container g, whether it has an import name, whether a public variable of
\* its python module holds it, whether its init listener raises, _commands
\* in the order the dict yields them, and the (cmd, f) pairs the init
\* listener registers with bot.on().
ModA == [name |-> "A", ver |-> 1, g |-> <<"g", "A", 1>>, src |-> TRUE, public |-> TRUE,
         initfail |-> FALSE, commands |-> <<<<"foo">>, <<"bar", SP, "ON">>>>,
         hs |-> <<<<<<"X">>, "a1">>, <<<<"PING">>, "a2">>>>]
ModB == [name |-> "B", ver |-> 1, g |-> <<"g", "B", 1>>, src |-> TRUE, public |-> TRUE,
         initfail |-> FALSE, commands |-> <<<<"Foo">>>>, hs |-> <<<<<<"X">>, "b1">>>>]
ModC == [name |-> "C", ver |-> 1, g |-> <<"g", "C", 1>>, src |-> TRUE, public |-> TRUE,
         initfail |-> FALSE, commands |-> <<<<"baz">>, <<"BAZ">>>>,
         hs |-> <<<<<<"X">>, "c1">>>>]
ModD == [name |-> "D", ver |-> 1, g |-> <<"g", "D", 1>>, src |-> TRUE, public |-> FALSE,
         initfail |-> FALSE, commands |-> <<<<"qux">>>>,
         hs |-> <<<<<<"X">>, "d1">>, <<<<"X">>, "d1">>>>]
ModE == [name |-> "E", ver |-> 1, g |-> <<"g", "E", 1>>, src |-> FALSE, public |-> TRUE,
         initfail |-> FALSE, commands |-> <<>>, hs |-> <<<<<<"PING">>, "e1">>, <<<<"X">>, "e1">>>>]
Catalog == {ModA, ModB, ModC, ModD, ModE}
\* admin = BotModule('Admin', __name__) of modules/admin.py, with its command
\* die; the module is in module_list once modules/admin.py has been imported
ModAdmin == [name |-> "Admin", ver |-> 1, g |-> <<"g", "Admin", 1>>, src |-> TRUE,
             public |-> TRUE, initfail |-> FALSE, commands |-> <<<<"die">>>>, hs |-> <<>>]

\* a module without commands, in module_list once the python module that
\* makes it has been imported
ModL == [name |-> "L", ver |-> 1, g |-> <<"g", "L", 1>>, src |-> TRUE, public |-> TRUE,
         initfail |-> FALSE, commands |-> <<>>, hs |-> <<>>]

\* the module_list of bot.py after the modules have been imported
InitModuleList == [n \in {m.name : m \in Catalog} |-> CHOOSE m \in Catalog : m.name = n]

\* ------------------------------------------------- registering modules
\* for cmd, func in module._commands.iteritems(): self._commands[cmd] = func
RECURSIVE AddCommands(_, _, _)
AddCommands(r, m, i) ==
    IF r.exc # "none" \/ i > Len(m.commands) THEN r
    ELSE LET res == SetItem(r.commands, m.commands[i],
                            [name |-> m.commands[i], owner |-> m.name])
         IN AddCommands([r EXCEPT !.commands = res.d, !.exc = res.err], m, i + 1)

\* Bot._register_module
RegisterModule(r, m) ==
    IF m.name \in DOMAIN r.modules THEN [r EXCEPT !.exc = "ValueError"]
    ELSE IF \E i \in 1..Len(m.commands) : Contains(r.commands, m.commands[i])
    THEN [r EXCEPT !.exc = "ValueError"]
    ELSE AddCommands([r EXCEPT !.modules = Put(@, m.name, m)], m, 1)

\* bot.on(cmd)(f) for a bound method f of module m: the handler is appended
\* and recorded in _module_handlers under the module's name
RECURSIVE OnModule(_, _, _)
OnModule(r, m, i) ==
    IF i > Len(m.hs) THEN r
    ELSE LET cmd == m.hs[i][1]
             f == Handler(m.name, m.hs[i][2])
         IN OnModule([r EXCEPT !.handlers = OnHandlers(@, cmd, f),
                               !.mhandlers = Put(@, m.name,
                                   Append(Get(@, m.name), <<cmd, f>>))],
                     m, i + 1)

\* for cmd, func in module._commands.iteritems(): del self._commands[cmd]
RECURSIVE DelCommands(_, _, _)
DelCommands(r, m, i) ==
    IF r.exc # "none" \/ i > Len(m.commands) THEN r
    ELSE LET res == DelItem(r.commands, m.commands[i])
         IN DelCommands([r EXCEPT !.commands = res.d, !.exc = res.err], m, i + 1)

\* a remove that drops the head of the list, whatever it is
RemoveHead(l, f) == Tail(l)

\* list.remove(f): the first occurrence of f goes
RemoveFirst(l, f) ==
    LET i == IndexOf(l, f)
    IN SubSeq(l, 1, i - 1) \o SubSeq(l, i + 1, Len(l))

\* for cmd, f in self._module_handlers.get(module.name, []):
\*     self._handlers[cmd].remove(f)
RECURSIVE DelHandlers(_, _, _)
DelHandlers(r, pairs, i) ==
    IF r.exc # "none" \/ i > Len(pairs) THEN r
    ELSE LET cmd == pairs[i][1]
             f == pairs[i][2]
         IN IF IndexOf(r.handlers[cmd], f) = 0 THEN [r EXCEPT !.exc = "ValueError"]
            ELSE DelHandlers([r EXCEPT !.handlers[cmd] = RemoveFirst(@, f)], pairs, i + 1)

\* Bot._unregister_module
UnregisterModule(r, m) ==
    IF m.name \notin DOMAIN r.modules THEN [r EXCEPT !.exc = "ValueError"]
    ELSE LET r1 == DelCommands([r EXCEPT !.modules = [k \in DOMAIN @ \ {m.name} |-> @[k]]], m, 1)
             r2 == DelHandlers(r1, Get(r1.mhandlers, m.name), 1)
         IN IF r2.exc # "none" THEN r2
            ELSE [r2 EXCEPT !.mhandlers = [k \in DOMAIN @ \ {m.name} |-> @[k]]]


\* BotModule._trigger_event for an event whose listener does no more than
\* record its call
CallListener(s, inst, evt, arg) ==
    IF s.exc # "none" THEN s
    ELSE [s EXCEPT !.log = Append(@, MEntry(s, inst, evt, arg))]

\* BotModule.unload
Unload(r, m) == CallListener(UnregisterModule(r, m), m, UNLOAD, None)

\* BotModule._trigger_event with the arguments init_bot, reload and
\* _run_command give it: every instance has one listener for each event, and
\* the init listener of an instance with initfail raises
ModTrigger(s, inst, evt, arg) ==
    LET s1 == CallListener(s, inst, evt, arg)
    IN IF s.exc # "none" THEN s
       ELSE IF evt = INIT /\ inst.initfail THEN Raise(s1, "KeyError")
       ELSE s1

\* module._trigger_event(evt) as the bot's broadcast calls it: module B's
\* listener for terminate unloads the module
ModBroadcast(s, inst, evt) ==
    LET s1 == ModTrigger(s, inst, evt, None)
    IN IF s1.exc = "none" /\ evt = TERMINATE /\ inst.name = "B" THEN Unload(s1, inst)
       ELSE s1

\* the module's listener for init: it registers the module's message handlers
\* and, like admin_init, takes over the state it is handed; handed none,
\* admin_init makes admin.g.confirm a new empty set
InitHandler(r, m, state) ==
    IF r.exc # "none" THEN r
    ELSE LET r1 == OnModule(r, m, 1)
         IN IF state # None THEN [r1 EXCEPT !.modules[m.name].g = state]
            ELSE IF m.name = "Admin" THEN [r1 EXCEPT !.confirm = {}]
            ELSE r1

\* an init_bot that fires ready whatever the bot's flag says
InitBotReadyAlways(r, m, state) ==
    LET r1 == RegisterModule(r, m)
        r2 == InitHandler(ModTrigger(r1, m, INIT, state), m, state)
    IN IF r2.exc # "none" THEN r2
       ELSE ModTrigger(r2, r2.modules[m.name], READY, None)

\* BotModule.init_bot(bot, _state=state)
InitBotWith(r, m, state) ==
    LET r1 == RegisterModule(r, m)
        r2 == InitHandler(ModTrigger(r1, m, INIT, state), m, state)
    IN IF r2.exc # "none" \/ ~r2.ready THEN r2
       ELSE ModTrigger(r2, r2.modules[m.name], READY, None)

\* BotModule.init_bot(bot)
InitBot(r, m) == InitBotWith(r, m, None)

\* Bot.load_module(name), whose result the caller does not look at
BotLoadModule(s, name) ==
    IF s.exc # "none" THEN s
    ELSE IF name \notin DOMAIN s.module_list \/ name \in DOMAIN s.modules THEN s
    ELSE InitBot(s, s.module_list[name])

\* what reload(pymod) does: "loaderror", the new code raises; "same", it makes
\* an instance like the old one; "collide", the instance declares a command
\* another module may have; "initfail", the instance's init listener raises
ReloadOutcomes == {"loaderror", "same", "collide", "initfail"}

\* the instance the new code of m's python module makes, BotModule.__init__
NewInstance(m, o) ==
    [m EXCEPT !.ver = m.ver + 1, !.g = <<"g", m.name, m.ver + 1>>,
              !.initfail = (o = "initfail"),
              !.commands = IF o = "collide" THEN <<<<"QUX">>>> ELSE @]

\* a reload that hands the new instance no state
ReloadFreshState(s, m, o) ==
    IF ~m.src \/ ~m.public \/ o = "loaderror" THEN [s EXCEPT !.ret = "False"]
    ELSE LET s1 == ModTrigger(UnregisterModule(s, m), m, RELOAD, None)
             mod == NewInstance(m, o)
         IN IF s1.exc # "none" THEN s1
            ELSE [InitBotWith([s1 EXCEPT !.module_list = Put(@, mod.name, mod)], mod, None)
                  EXCEPT !.ret = "True"]

\* BotModule.reload; ret is what it returns
Reload(s, m, o) ==
    IF ~m.src THEN [s EXCEPT !.ret = "False"]
    ELSE IF ~m.public THEN [s EXCEPT !.ret = "False"]
    ELSE IF o = "loaderror" THEN [Log(s, "error", 0, "reload") EXCEPT !.ret = "False"]
    ELSE LET s1 == ModTrigger(UnregisterModule(s, m), m, RELOAD, None)
             mod == NewInstance(m, o)
         IN IF s1.exc # "none" THEN s1
            ELSE [InitBotWith([s1 EXCEPT !.module_list = Put(@, mod.name, mod)], mod, m.g)
                  EXCEPT !.ret = "True"]

\* ------------------------------------------------------------- bot events
\* the order in which dict.itervalues() yields the modules
ModuleOrder == <<"A", "B", "C", "D", "E", "L">>

\* for module in self.modules.itervalues(): module._trigger_event(evt, *args);
\* the dict iterator raises when the dict has changed its size
RECURSIVE Broadcast(_, _, _, _, _)
Broadcast(s, evt, names, i, size) ==
    IF s.exc # "none" THEN s
    ELSE IF Cardinality(DOMAIN s.modules) # size
    THEN Raise(Log(s, "raise", 0, "_trigger_event"), "RuntimeError")
    ELSE IF i > Len(names) THEN s
    ELSE Broadcast(ModBroadcast(s, s.modules[names[i]], evt), evt, names, i + 1, size)

\* Bot._trigger_event
TriggerEvent(s, evt) ==
    IF s.exc # "none" THEN s
    ELSE LET s1 == RunListeners(Log(s, "event", 0, evt), BotListeners(evt))
         IN IF evt \in COMMON_EVENTS
            THEN Broadcast(s1, evt,
                           SelectSeq(ModuleOrder, LAMBDA n : n \in DOMAIN s1.modules),
                           1, Cardinality(DOMAIN s1.modules))
            ELSE s1

\* Bot._trigger_event(READY), which only trigger_ready calls: r2, the last
\* listener the application registered for ready, calls bot.load_module('L')
TriggerEventReady(s) ==
    IF s.exc # "none" THEN s
    ELSE LET s1 == BotLoadModule(RunListeners(Log(s, "event", 0, READY),
                                              BotListeners(READY)), "L")
         IN Broadcast(s1, READY,
                      SelectSeq(ModuleOrder, LAMBDA n : n \in DOMAIN s1.modules),
                      1, Cardinality(DOMAIN s1.modules))

\* a trigger_ready that does not look at the flag
TriggerReadyAgain(s) ==
    TriggerEventReady([Log(s, "call", 0, "trigger_ready") EXCEPT
                          !.readyCalled = @ \/ s.sock, !.ready = TRUE])

\* Bot.trigger_ready
TriggerReady(s) ==
    LET s1 == [Log(s, "call", 0, "trigger_ready") EXCEPT !.readyCalled = @ \/ s.sock]
    IN IF s.exc # "none" THEN s
       ELSE IF s.ready THEN s1
       ELSE TriggerEventReady([s1 EXCEPT !.ready = TRUE])

\* a send() that queues the line and leaves the watcher's events alone
SendNoInterest(s, line) ==
    IF s.exc # "none" THEN s
    ELSE LET b == EncodeUtf8(line) \o <<CRLF>>
         IN [s EXCEPT !.writebuf = @ \o b, !.queued = @ \o b]

\* Bot.send
Send(s, line) ==
    IF s.exc # "none" THEN s
    ELSE LET b == EncodeUtf8(line) \o <<CRLF>>
             s1 == [s EXCEPT !.writebuf = @ \o b, !.queued = @ \o b]
         IN IF ~s1.watcher.obj THEN Raise(Log(s1, "raise", 0, "send"), "AttributeError")
            ELSE [s1 EXCEPT !.watcher = [obj |-> TRUE, events |-> @.events \cup {EV_WRITE},
                                         active |-> TRUE]]

\* Bot.stop
Stop(s, graceful) ==
    IF s.exc # "none" THEN s
    ELSE IF ~graceful THEN LoopStop(s, "immediate")
    ELSE IF ~s.watcher.obj THEN Raise(Log(s, "raise", 0, "stop"), "AttributeError")
    ELSE [s EXCEPT !.watcher = [obj |-> TRUE, events |-> {EV_WRITE}, active |-> TRUE],
                   !.stop_loop = TRUE]

\* Bot._close; the peer's unread bytes go with the socket
Close(s) ==
    IF s.exc # "none" THEN s
    ELSE IF ~s.sock THEN Raise(Log(s, "raise", 0, "_close"), "AttributeError")
    ELSE LET s1 == [s EXCEPT !.sock = FALSE, !.net = <<>>, !.npeer = 0]
         IN IF ~s1.watcher.obj THEN Raise(Log(s1, "raise", 0, "_close"), "AttributeError")
            ELSE LET s2 == [s1 EXCEPT !.watcher = NoWatcher, !.readbuf = <<>>,
                                      !.writebuf = <<>>, !.queued = <<>>,
                                      !.wire = <<>>]
                     s3 == TriggerEvent(s2, DISCONNECT)
                 IN IF s3.exc # "none" THEN s3
                    ELSE [s3 EXCEPT !.nick = None, !.server = None, !.ready = FALSE]

\* Bot._reconnect: Timer.reset() starts a repeating timer afresh
Reconnect(s) ==
    IF s.exc # "none" THEN s ELSE [s EXCEPT !.tmr = (IRC_RECONNECT_DELAY > 0)]

\* Bot._connected
Connected(s) ==
    LET s1 == TriggerEvent(s, CONNECT)
        s2 == IF IRC_SERVER_PASS # None
              THEN Send(s1, <<"PASS :">> \o IRC_SERVER_PASS) ELSE s1
    IN Send(Send(s2, NICK_LINE), USER_LINE)

\* the socket left in s by the loop over the candidate pairs of Bot._connect:
\* each pair sets it (success) or resets it (failure), and no pair ends the loop
RECURSIVE TryPairs(_, _)
TryPairs(res, cur) ==
    IF res = <<>> THEN cur ELSE TryPairs(Tail(res), Head(res))

\* the pairs for which the loop of Bot._connect calls socket.socket(): no
\* pair ends the loop, each of them gets its socket
SocketsMade(res) == Len(res)

\* what getaddrinfo() and the sockets may do in one connect attempt
ConnectOutcomes ==
    {[kind |-> "nolocal", res |-> <<>>], [kind |-> "noremote", res |-> <<>>]}
    \cup {[kind |-> "pairs", res |-> r] :
            r \in UNION {[1..n -> BOOLEAN] : n \in 0..MaxPairs}}

\* Bot._connect
Connect(s, o) ==
    IF s.exc # "none" THEN s
    ELSE IF o.kind \in {"nolocal", "noremote"} THEN Log(s, "connect", 0, o.kind)
    ELSE IF ~TryPairs(o.res, FALSE) THEN Reconnect(Log(s, "connect", 0, "failed"))
    ELSE Connected([Log(s, "connect", 0, "ok") EXCEPT
                        !.sock = TRUE,
                        !.watcher = [obj |-> TRUE, events |-> {EV_READ}, active |-> TRUE],
                        !.net = <<>>, !.npeer = 0, !.readyCalled = FALSE])
\* Bot._handle_error
HandleError(s, msg) == Reconnect(Close(s))

\* Bot._handle_ping
HandlePing(s, msg) == Send(s, <<"PONG :">> \o msg.args[1])

\* Bot._handle_welcome
HandleWelcome(s, msg) ==
    [s EXCEPT !.server = SourceStr(msg.source), !.nick = msg.args[1]]

\* line.startswith(prefix)
StartsWith(line, prefix) ==
    Len(line) >= Len(prefix) /\ SubSeq(line, 1, Len(prefix)) = prefix

\* 'NOTICE %s :%s' % (to, text)
Notice(to, text) == <<"NOTICE ">> \o to \o <<" :">> \o text

\* Bot.send_multi('NOTICE %s :%%s' % to, items)
RECURSIVE SendMulti(_, _, _)
SendMulti(s, to, items) ==
    IF items = <<>> THEN s
    ELSE SendMulti(Send(s, Notice(to, IF Head(items) = <<>> THEN <<SP>> ELSE Head(items))),
                   to, Tail(items))

\* The functions the modules declare as commands, by name: whether the
\* command is greedy, whether the function takes *args, how many parameters
\* without a default it has after source and channel, the switches that its
\* parameters with the default False make, and what it does when called: it
\* returns its arguments as one line (nothing when it has none), raises
\* KeyError, raises CommandAborted('no'), or is the die of modules/admin.py.
CommandFunc(name) ==
    CASE name = <<"foo">> ->
            [greedy |-> FALSE, varargs |-> FALSE, npos |-> 1, flags |-> {},
             does |-> "return"]
      [] name = <<"bar", SP, "ON">> ->
            [greedy |-> TRUE, varargs |-> FALSE, npos |-> 1, flags |-> {},
             does |-> "return"]
      [] name = <<"Foo">> ->
            [greedy |-> FALSE, varargs |-> TRUE, npos |-> 0, flags |-> {},
             does |-> "return"]
      [] name = <<"qux">> ->
            [greedy |-> FALSE, varargs |-> FALSE, npos |-> 0, flags |-> {},
             does |-> "raise"]
      [] name = <<"die">> ->
            [greedy |-> TRUE, varargs |-> FALSE, npos |-> 1, flags |-> {<<"--force">>},
             does |-> "die"]
      [] name = <<"move">> ->
            [greedy |-> TRUE, varargs |-> FALSE, npos |-> 2, flags |-> {<<"--force">>},
             does |-> "return"]
      [] OTHER ->
            [greedy |-> FALSE, varargs |-> FALSE, npos |-> 0, flags |-> {},
             does |-> "abort"]

\* argparse takes a token for an option when it starts with '-'
IsOption(tok) == tok # <<>> /\ tok[1] \in {"--bogus", "--force"}

\* the tokens of args that argparse does not bind: the options no parameter
\* declares and the positionals beyond the first npos, in their order
RECURSIVE Extras(_, _, _)
Extras(args, npos, flags) ==
    IF args = <<>> THEN <<>>
    ELSE IF Head(args) \in flags THEN Extras(Tail(args), npos, flags)
    ELSE IF IsOption(Head(args)) THEN <<Head(args)>> \o Extras(Tail(args), npos, flags)
    ELSE IF npos > 0 THEN Extras(Tail(args), npos - 1, flags)
    ELSE <<Head(args)>> \o Extras(Tail(args), npos, flags)

\* a __call__ that gives the greedy parameter its own token only
BindGreedyAlone(f, args) ==
    LET pos == SelectSeq(args, LAMBDA a : ~IsOption(a))
    IN IF Len(pos) < f.npos THEN [err |-> "too few arguments", call |-> <<>>, on |-> {}]
       ELSE [err |-> "none", call |-> SubSeq(pos, 1, f.npos),
             on |-> {a \in f.flags : \E i \in DOMAIN args : args[i] = a}]

\* _BotCommand.__call__ up to the call of the function: parse_known_args for
\* greedy commands and functions with *args, parse_args for the others; err
\* is the parser's error, call the arguments the function is called with
\* (*remaining first, then the bound parameters), on the switches given
Bind(f, args) ==
    LET pos == SelectSeq(args, LAMBDA a : ~IsOption(a))
        extras == Extras(args, f.npos, f.flags)
        bound == SubSeq(pos, 1, f.npos)
        on == {a \in f.flags : \E i \in DOMAIN args : args[i] = a}
    IN IF Len(pos) < f.npos THEN [err |-> "too few arguments", call |-> <<>>, on |-> {}]
       ELSE IF ~(f.varargs \/ f.greedy)
       THEN IF extras # <<>> THEN [err |-> "unrecognized arguments", call |-> <<>>, on |-> {}]
            ELSE [err |-> "none", call |-> bound, on |-> on]
       ELSE IF f.greedy
       THEN [err |-> "none",
             call |-> SubSeq(bound, 1, f.npos - 1)
                      \o <<Join(<<bound[f.npos]>> \o extras, SP)>>,
             on |-> on]
       ELSE [err |-> "none", call |-> extras \o bound, on |-> on]

\* cmd.module: the instance that declared the command, which is the one
\* registered under its name while the command is in the table
CommandModule(s, cmd) ==
    IF cmd.owner \in DOMAIN s.modules THEN s.modules[cmd.owner]
    ELSE s.module_list[cmd.owner]

\* Bot.after: a one-shot timer that calls func after delay seconds
After(s, delay, func) ==
    IF s.exc # "none" THEN s
    ELSE [s EXCEPT !.timers = Append(@, [delay |-> delay, func |-> func])]

\* the _expire of die, made for the source src
Expire(src) == [f |-> "_expire", src |-> src]

\* a die that asks for no confirmation
DieUnconfirmed(s, msg, reason, force) ==
    IF s.exc # "none" THEN s
    ELSE Stop(Send(Log(s, "die", 0, "stop"), <<"QUIT :">> \o reason), ~force)

\* the die of modules/admin.py, called with reason and force
Die(s, msg, reason, force) ==
    LET src == msg.source.source
    IN IF s.exc # "none" THEN s
       ELSE IF src \in s.confirm
       THEN Stop(Send(Log(s, "die", 0, "stop"), <<"QUIT :">> \o reason), ~force)
       ELSE SendMulti(After([Log(s, "die", 0, "confirm") EXCEPT !.confirm = @ \cup {src}],
                            5, Expire(src)),
                      msg.source.nick,
                      <<<<"Re-run this command within five seconds to confirm it.">>>>)

\* self._func(source, channel, *remaining, **kwargs) and the notices for what
\* it returns or for why it aborted
CallFunc(s, msg, f, b) ==
    CASE f.does = "raise" -> Raise(s, "KeyError")
      [] f.does = "abort" -> SendMulti(s, msg.source.nick, <<<<"no">>>>)
      [] f.does = "die" -> Die(s, msg, b.call[1], <<"--force">> \in b.on)
      [] b.call = <<>> -> s
      [] OTHER -> SendMulti(s, msg.source.nick, <<Join(b.call, SP)>>)

\* a _run_command that hands before_command to every loaded module
RunCommandBroadcast(s, msg, channel, cmd, args) ==
    LET to == msg.source.nick
        s1 == TriggerEvent(s, BEFORE_COMMAND)
        s2 == Broadcast(s1, BEFORE_COMMAND,
                        SelectSeq(ModuleOrder, LAMBDA n : n \in DOMAIN s1.modules),
                        1, Cardinality(DOMAIN s1.modules))
        f == CommandFunc(cmd.name)
        b == Bind(f, args)
    IN IF s2.exc # "none" THEN s2
       ELSE IF b.err # "none"
       THEN SendMulti(Log(s2, "abort", 0, cmd.name), to,
                      <<<<"usage: ">> \o cmd.name, cmd.name \o <<": error: ", b.err>>>>)
       ELSE CallFunc(Log(Log(s2, "command", 0, cmd.name), "channel", 0, channel),
                     msg, f, b)

\* Bot._run_command: the two before_command events, the call of the command
\* (the function is called with the channel when the arguments parse), and
\* the notices for what it returns or for why it was aborted
RunCommand(s, msg, channel, cmd, args) ==
    LET to == msg.source.nick
        s1 == TriggerEvent(s, BEFORE_COMMAND)
        s2 == ModTrigger(s1, CommandModule(s1, cmd), BEFORE_COMMAND, cmd.name)
        f == CommandFunc(cmd.name)
        b == Bind(f, args)
    IN IF s2.exc # "none" THEN s2
       ELSE IF b.err # "none"
       THEN SendMulti(Log(s2, "abort", 0, cmd.name), to,
                      <<<<"usage: ">> \o cmd.name, cmd.name \o <<": error: ", b.err>>>>)
       ELSE CallFunc(Log(Log(s2, "command", 0, cmd.name), "channel", 0, channel),
                     msg, f, b)

\* a _handle_privmsg that looks up the text of a channel message with the
\* trigger still in front
HandlePrivmsgKeepTrigger(s, msg) ==
    IF Len(msg.args) < 2 THEN Raise(Log(s, "raise", 0, "_handle_privmsg"), "IndexError")
    ELSE LET direct == msg.args[1] = s.nick
             line == msg.args[2]
         IN IF ~direct /\ (IRC_TRIGGER = None \/ ~StartsWith(line, IRC_TRIGGER)) THEN s
            ELSE LET r == Lookup(s.commands, line)
                 IN IF ~r.found THEN Log(s, "lookup", 0, "None")
                    ELSE RunCommand(s, msg, IF direct THEN None ELSE msg.args[1],
                                    r.function, r.args)

\* Bot._handle_privmsg
HandlePrivmsg(s, msg) ==
    IF Len(msg.args) < 2 THEN Raise(Log(s, "raise", 0, "_handle_privmsg"), "IndexError")
    ELSE LET direct == msg.args[1] = s.nick
             line == msg.args[2]
         IN IF ~direct /\ (IRC_TRIGGER \in {None, <<>>} \/ ~StartsWith(line, IRC_TRIGGER))
            THEN s
            ELSE LET text == IF direct THEN line
                             ELSE SubSeq(line, Len(IRC_TRIGGER) + 1, Len(line))
                     r == Lookup(s.commands, text)
                 IN IF ~r.found THEN Log(s, "lookup", 0, "None")
                    ELSE RunCommand(s, msg, IF direct THEN None ELSE msg.args[1],
                                    r.function, r.args)

\* module B's handler for X: bot.modules[msg[0]].unload() if such a module is
\* loaded
UnloadNamed(s, msg) ==
    IF msg.args = <<>> \/ msg.args[1] = <<>> \/ msg.args[1][1] \notin DOMAIN s.modules THEN s
    ELSE Unload(s, s.modules[msg.args[1][1]])

\* one call handler(msg) of Bot._parse_line
RunHandler(s, h, msg, n) ==
    LET s1 == Log(s, "handler", n, h.f)
    IN CASE h = H_ERROR -> HandleError(s1, msg)
         [] h = H_PING -> HandlePing(s1, msg)
         [] h = H_WELCOME -> HandleWelcome(s1, msg)
         [] h = H_PRIVMSG -> HandlePrivmsg(s1, msg)
         [] h = U_SEND -> Send(s1, <<"reply">>)
         [] h = Handler("B", "b1") -> UnloadNamed(s1, msg)
         [] OTHER -> s1

\* for handler in self._handlers.get(msg.cmd, []): handler(msg)
\* (the list is walked by index, as a Python list iterator walks it)
RECURSIVE RunHandlers(_, _, _, _)
RunHandlers(s, msg, n, i) ==
    IF s.exc # "none" \/ i > Len(Get(s.handlers, msg.cmd)) THEN s
    ELSE RunHandlers(RunHandler(s, Get(s.handlers, msg.cmd)[i], msg, n), msg, n, i + 1)

\* Bot._parse_line; n numbers the lines of one read
ParseLine(s, line, n) ==
    LET msg == IRCMessage(line)
    IN IF msg.err # "none" THEN Raise(Log(s, "raise", n, "IRCMessage"), msg.err)
       ELSE RunHandlers(s, msg, n, 1)

\* the while loop of Bot._io_read
RECURSIVE DispatchLines(_, _)
DispatchLines(s, n) ==
    IF s.exc # "none" \/ IndexOf(s.readbuf, LF) = 0 THEN s
    ELSE LET pos == IndexOf(s.readbuf, LF)
             line == RStripCR(SubSeq(s.readbuf, 1, pos - 1))
             s1 == [s EXCEPT !.readbuf = SubSeq(@, pos + 1, Len(@))]
         IN DispatchLines(ParseLine(s1, line, n), n + 1)

\* what sock.recv(1024) may do: k bytes, hang-up, would-block, another error
ReadOutcomes(s) ==
    {[kind |-> "data", k |-> k] : k \in 1..Min(Len(s.net), RecvSize)}
    \cup {[kind |-> "eof", k |-> 0], [kind |-> "eagain", k |-> 0],
          [kind |-> "error", k |-> 0]}

\* Bot._io_read
IoRead(s, o) ==
    IF s.exc # "none" THEN s
    ELSE IF ~s.sock THEN Raise(Log(s, "raise", 0, "_io_read"), "AttributeError")
    ELSE CASE o.kind = "eagain" -> s
           [] o.kind = "error" -> Reconnect(Close(s))
           [] o.kind = "eof" -> Reconnect(Close(s))
           [] OTHER ->
                LET data == s.readbuf \o SubSeq(s.net, 1, o.k)
                IN DispatchLines([s EXCEPT !.readbuf = data, !.lastData = data,
                                           !.net = SubSeq(@, o.k + 1, Len(@))], 1)

\* what sock.send(self._writebuf) may do: accept n bytes, would-block, error
WriteOutcomes(s) ==
    {[kind |-> "sent", n |-> n] :
        n \in (IF s.writebuf = <<>> THEN {0} ELSE 1..Len(s.writebuf))}
    \cup {[kind |-> "eagain", n |-> 0], [kind |-> "error", n |-> 0]}

\* an _io_write that keeps the whole buffer after a partial send
IoWriteResend(s, o) ==
    IF s.exc # "none" \/ ~s.sock \/ o.kind # "sent" THEN s
    ELSE LET s1 == [s EXCEPT !.wire = @ \o SubSeq(s.writebuf, 1, o.n)]
         IN IF o.n < Len(s.writebuf) THEN s1
            ELSE [s1 EXCEPT !.writebuf = <<>>,
                            !.watcher = [obj |-> TRUE, events |-> @.events \ {EV_WRITE},
                                         active |-> TRUE]]

\* Bot._io_write
IoWrite(s, o) ==
    IF s.exc # "none" THEN s
    ELSE IF ~s.sock THEN Raise(Log(s, "raise", 0, "_io_write"), "AttributeError")
    ELSE CASE o.kind = "eagain" -> s
           [] o.kind = "error" -> Reconnect(Close(s))
           [] OTHER ->
                LET s1 == [s EXCEPT !.wire = @ \o SubSeq(s.writebuf, 1, o.n),
                                    !.writebuf = SubSeq(@, o.n + 1, Len(@))]
                IN IF s1.writebuf # <<>> THEN s1
                   ELSE [s1 EXCEPT !.watcher = [obj |-> TRUE,
                                                events |-> @.events \ {EV_WRITE},
                                                active |-> TRUE]]

\* an _io_cb that stops the loop as soon as a stop is pending
IoStopEarly(s) ==
    IF s.exc # "none" \/ ~s.stop_loop \/ ~s.watcher.obj THEN s
    ELSE [LoopStop(s, "graceful") EXCEPT !.stop_loop = FALSE]

\* the end of Bot._io_cb: the graceful stop
IoStop(s) ==
    IF s.exc # "none" \/ ~s.stop_loop THEN s
    ELSE IF ~s.watcher.obj THEN Raise(Log(s, "raise", 0, "_io_cb"), "AttributeError")
    ELSE IF EV_WRITE \in s.watcher.events THEN s
    ELSE [LoopStop(s, "graceful") EXCEPT !.stop_loop = FALSE]

\* Bot._sig_cb
SigHandler(s) == LoopStop(Close(TriggerEvent(s, TERMINATE)), "signal")
\* ------------------------------------------------------------ the callbacks
\* the lines the peer sends, each with its terminator (CR LF, or a bare LF)
L_PING == <<"ping", SP, COLON, B_C3, B_A9, CR, LF>>
L_ERROR == <<"ERROR", SP, "bye", LF>>
L_NOARG == <<"PING", LF>>
InLines == {L_PING, L_ERROR, L_NOARG}

NoOp == [op |-> "none", m |-> "none", err |-> "none"]

\* What pyev does with the state a callback of watcher w leaves: an exception
\* that escapes the callback stops the loop when loop.debug is set; otherwise
\* it is reported, and the watcher that fired may be stopped.  loop.debug is a
\* configuration value nothing reads before the first such exception: its
\* value is drawn then and kept.
Commit(s, w) ==
    LET e == s.exc # "none"
    IN /\ lastExc' = s.exc
       /\ \E d \in (IF ~e \/ s.debug # "unset" THEN {s.debug} ELSE {"on", "off"}) :
            /\ debug' = d
            /\ loop' = IF e /\ d = "on" THEN "stopped" ELSE s.loop
            /\ stoppedBy' = IF e /\ d = "on" THEN "error" ELSE s.stoppedBy
            /\ \E stopw \in (IF e /\ d = "off" THEN BOOLEAN ELSE {FALSE}) :
                 /\ watcher' = IF stopw /\ w = "io" /\ s.watcher.obj
                               THEN [s.watcher EXCEPT !.active = FALSE] ELSE s.watcher
                 /\ sigw' = IF stopw /\ w = "sig" THEN FALSE ELSE s.sigw
                 /\ tmr' = IF stopw /\ w = "tmr" THEN FALSE ELSE s.tmr
       /\ sock' = s.sock
       /\ stop_loop' = s.stop_loop
       /\ writebuf' = s.writebuf
       /\ readbuf' = s.readbuf
       /\ nick' = s.nick
       /\ server' = s.server
       /\ ready' = s.ready
       /\ handlers' = s.handlers
       /\ net' = s.net
       /\ npeer' = s.npeer
       /\ queued' = s.queued
       /\ wire' = s.wire
       /\ log' = s.log
       /\ lastData' = s.lastData
       /\ readyCalled' = s.readyCalled
       /\ modules' = s.modules
       /\ commands' = s.commands
       /\ mhandlers' = s.mhandlers
       /\ module_list' = s.module_list
       /\ lastOp' = NoOp
       /\ timers' = s.timers
       /\ confirm' = s.confirm
       /\ UNCHANGED IRC_TRIGGER

\* Bot.__init__ and Bot.init_app, but for the configured trigger
InitBotState ==
    /\ loop = "init"
    /\ debug = "unset"
    /\ sock = FALSE
    /\ watcher = NoWatcher
    /\ stop_loop = FALSE
    /\ writebuf = <<>>
    /\ readbuf = <<>>
    /\ nick = None
    /\ server = None
    /\ ready = FALSE
    /\ tmr = FALSE
    /\ sigw = FALSE
    /\ handlers = InitHandlers
    /\ net = <<>>
    /\ npeer = 0
    /\ queued = <<>>
    /\ wire = <<>>
    /\ log = <<>>
    /\ lastData = <<>>
    /\ lastExc = "none"
    /\ stoppedBy = "none"
    /\ readyCalled = FALSE
    /\ modules = <<>>
    /\ commands = <<>>
    /\ mhandlers = <<>>
    /\ module_list = InitModuleList
    /\ lastOp = NoOp
    /\ timers = <<>>
    /\ confirm = {}

\* Bot.__init__ and Bot.init_app with the default configuration
Init ==
    /\ InitBotState
    /\ IRC_TRIGGER = None

\* the handlers the application has registered
UserCount ==
    Len(Flatten([c \in {1, 2} |->
        SelectSeq(handlers[<<<<"ERROR">>, <<"PING">>>>[c]], LAMBDA h : h.owner = "app")]))

\* bot.on(cmd)(f), called by the application before run()
On(cmd, f) ==
    /\ loop = "init"
    /\ UserCount < MaxUserHandlers
    /\ handlers' = OnHandlers(handlers, cmd, f)
    /\ UNCHANGED <<engineVars, registryVars, IRC_TRIGGER, adminVars>>

\* Bot.run: connect, start the signal watchers, start the loop
Run ==
    /\ loop = "init"
    /\ \E o \in ConnectOutcomes :
         Commit([Connect(Cur, o) EXCEPT !.sigw = TRUE, !.loop = "running"], "run")

\* a _reconnect_cb that leaves its timer running
ReconnectCbNoStop ==
    /\ loop = "running"
    /\ tmr
    /\ \E o \in ConnectOutcomes : Commit(Connect(Cur, o), "tmr")

\* Bot._reconnect_cb
ReconnectCb ==
    /\ loop = "running"
    /\ tmr
    /\ \E o \in ConnectOutcomes :
         Commit(Connect([Cur EXCEPT !.tmr = FALSE], o), "tmr")

\* Bot._io_cb, called with the events that are ready
IoCb(revents) ==
    /\ loop = "running"
    /\ watcher.obj /\ watcher.active
    /\ revents # {} /\ revents \subseteq watcher.events
    /\ \E ro \in ReadOutcomes(Cur) :
         LET s1 == IF EV_READ \in revents THEN IoRead(Cur, ro) ELSE Cur
         IN /\ EV_READ \in revents \/ ro.kind = "eagain"
            /\ \E wo \in WriteOutcomes(s1) :
                 LET s2 == IF EV_WRITE \in revents THEN IoWrite(s1, wo) ELSE s1
                 IN /\ EV_WRITE \in revents \/ wo.kind = "eagain"
                    /\ Commit(IoStop(s2), "io")

\* bot.stop(graceful), called by application code from a callback of its own
AppStop(graceful) ==
    /\ loop = "running"
    /\ Commit(Stop(Cur, graceful), "app")

\* Bot._sig_cb: SIGINT or SIGTERM has arrived
SigCb ==
    /\ loop = "running"
    /\ sigw
    /\ Commit(SigHandler(Cur), "sig")

\* the peer sends one line
PeerSend(line) ==
    /\ loop = "running"
    /\ sock
    /\ npeer < MaxPeerLines
    /\ net' = net \o line
    /\ npeer' = npeer + 1
    /\ UNCHANGED <<loop, debug, sock, watcher, stop_loop, writebuf, readbuf, nick,
                   server, ready, tmr, sigw, queued, wire, log, lastData,
                   lastExc, stoppedBy, readyCalled, handlers, registryVars,
                   IRC_TRIGGER, adminVars>>

Next ==
    \/ \E cmd \in UserCommands, f \in UserHandlers : On(cmd, f)
    \/ Run
    \/ ReconnectCb
    \/ \E revents \in SUBSET {EV_READ, EV_WRITE} : IoCb(revents)
    \/ \E graceful \in BOOLEAN : AppStop(graceful)
    \/ SigCb
    \/ \E line \in InLines : PeerSend(line)

Spec == Init /\ [][Next]_vars
\* ------------------------------------------------------------------- claims
\* the entries of kind t in the log of the last callback
LogOf(t) == SelectSeq(log, LAMBDA e : e.t = t)

InLog(t, h) == \E i \in DOMAIN log : log[i].t = t /\ log[i].h = h

\* C1: whenever the connection drops or a connect attempt fails while the
\* loop keeps running, the reconnect timer is armed when the callback ends, so
\* that connect() is attempted again.
C1_ReconnectArmed ==
    (/\ loop = "running"
     /\ \/ InLog("event", DISCONNECT)
        \/ \E i \in DOMAIN log : log[i].t = "connect" /\ log[i].h # "ok")
    => tmr

\* C2: a connect() that fails to resolve the bind address or the remote
\* address, called by run() or by the reconnect timer, leaves no socket and
\* the reconnect timer armed.
C2_ResolveFailureReconnects ==
    (loop # "init" /\ (InLog("connect", "nolocal") \/ InLog("connect", "noremote")))
    => (~sock /\ tmr)

\* C3: in every state of a running engine, the callback of a termination
\* signal fires the terminate event, leaves the connection closed and stops
\* the loop.
C3_SignalTerminates ==
    InLog("event", TERMINATE) => (loop = "stopped" /\ ~sock /\ ~watcher.obj)

\* C4 as the spec states it: while the connection is open, the write buffer
\* is non-empty exactly when write-interest is set.
C4_LockstepIff ==
    (sock /\ watcher.obj) => (writebuf # <<>> <=> EV_WRITE \in watcher.events)

\* C4, amended: while the connection is open, a non-empty write buffer has
\* write-interest set, and write-interest with an empty write buffer is set
\* only while a graceful stop is pending.
C4_Lockstep ==
    (sock /\ watcher.obj) =>
        /\ writebuf # <<>> => EV_WRITE \in watcher.events
        /\ (EV_WRITE \in watcher.events /\ writebuf = <<>>) => stop_loop

\* a graceful stop was requested with nothing to write
C4_Witness ==
    /\ sock /\ watcher.obj /\ stop_loop
    /\ writebuf = <<>> /\ EV_WRITE \in watcher.events
    /\ wire # <<>>

RECURSIVE LinesOf(_)
LinesOf(data) ==
    LET pos == IndexOf(data, LF)
    IN IF pos = 0 THEN <<>>
       ELSE <<RStripCR(SubSeq(data, 1, pos - 1))>>
            \o LinesOf(SubSeq(data, pos + 1, Len(data)))

\* the command word of a line: after the prefix, if there is one, the word up
\* to the next space, in upper case
CommandOf(line) ==
    LET rest == IF line # <<>> /\ line[1] = COLON
                THEN SubSeq(line, IndexOf(line, SP) + 1, Len(line)) ELSE line
        sp == IndexOf(rest, SP)
    IN Upper(IF sp = 0 THEN rest ELSE SubSeq(rest, 1, sp - 1))

\* the handler calls that lines call for: line by line, and for each line
\* the handlers of its command in the order of their registration
Dispatch(lines, hs) ==
    Flatten([n \in 1..Len(lines) |->
        [j \in 1..Len(Get(hs, CommandOf(lines[n]))) |->
            Entry("handler", n, Get(hs, CommandOf(lines[n]))[j].f)]])

\* C6: the handler calls of one read are those of its complete lines in the
\* order of their arrival, each line with all the handlers of its command in
\* the order of their registration.
C6_DispatchOrder ==
    lastData # <<>> => LogOf("handler") = Dispatch(LinesOf(lastData), handlers)

\* C7: the graceful stop stops the loop only at the end of an I/O callback
\* that leaves the write buffer empty and write-interest cleared; with a
\* graceful stop pending and bytes unsent the loop stops only through
\* stop(graceful=False) or an escaped exception; stop(graceful=False) stops
\* the loop whatever the write buffer holds.
C7_GracefulStop ==
    /\ stoppedBy = "graceful" =>
          /\ loop = "stopped" /\ ~stop_loop
          /\ writebuf = <<>> /\ watcher.obj /\ EV_WRITE \notin watcher.events
    /\ (loop = "stopped" /\ stop_loop /\ writebuf # <<>>) =>
          stoppedBy \in {"immediate", "error"}
    /\ stoppedBy = "immediate" => loop = "stopped"

\* the loop stopped gracefully after the queue was drained
C7_Witness ==
    /\ loop = "stopped" /\ stoppedBy = "graceful"
    /\ wire = queued /\ Len(wire) >= 4

\* C8: a send() made by a handler during dispatch completes without an error.
C8_SendInHandler ==
    LogOf("handler") # <<>> => ~InLog("raise", "send")
\* ------------------------------------------------------- the module registry
CommitReg(r, op, m) ==
    /\ modules' = r.modules
    /\ commands' = r.commands
    /\ handlers' = r.handlers
    /\ mhandlers' = r.mhandlers
    /\ module_list' = r.module_list
    /\ log' = r.log
    /\ lastOp' = [op |-> op, m |-> m.name,
                  err |-> IF r.exc # "none" THEN r.exc ELSE r.ret]
    /\ timers' = r.timers
    /\ confirm' = r.confirm
    /\ UNCHANGED <<loop, debug, sock, watcher, stop_loop, writebuf, readbuf, nick,
                   server, ready, tmr, sigw, net, npeer, queued, wire, lastData,
                   lastExc, stoppedBy, readyCalled, IRC_TRIGGER>>

\* module.init_bot(bot), as Bot.load_module and BotModule.reload call it
LoadModule(m) == CommitReg(InitBot(Cur, m), "register", m)

\* BotModule.unload, called for an instance the application holds
UnloadModule(m) == CommitReg(Unload(Cur, m), "unregister", m)

\* BotModule.reload of a loaded module, as the admin module calls it
ReloadModule(n, o) ==
    /\ n \in DOMAIN modules
    /\ modules[n].ver < MaxVer
    /\ CommitReg(Reload(Cur, modules[n], o), "reload", modules[n])

\* bot.trigger_ready(), called by the application
AppTriggerReady ==
    /\ loop # "stopped"
    /\ Commit(TriggerReady(Cur), "app")

NextMod ==
    \/ \E n \in DOMAIN module_list : LoadModule(module_list[n])
    \/ \E n \in DOMAIN module_list : UnloadModule(module_list[n])
    \/ \E n \in DOMAIN modules : \E o \in ReloadOutcomes : ReloadModule(n, o)
    \/ AppTriggerReady

SpecMod == Init /\ [][NextMod]_vars
\* the commands of table d that module m does not own
CommandsOfOthers(d, m) ==
    [k \in {k \in DOMAIN d : d[k].owner # m} |-> d[k]]

\* the commands for which handlers are registered in some run
HandlerCommands == DOMAIN InitHandlers \cup {<<"X">>}

\* the handler lists of registry hs without the handlers of module m ("":
\* without none), command by command as _handlers.get(cmd, []) yields them
HandlersOfOthers(hs, m) ==
    [c \in HandlerCommands |-> SelectSeq(Get(hs, c), LAMBDA h : h.owner # m)]

\* C9: a registration that fails leaves the loaded modules and the command
\* table as they were before the call.
C9_FailedRegisterAtomic ==
    [][(lastOp'.op = "register" /\ lastOp'.err # "none")
        => (modules' = modules /\ commands' = commands)]_vars

\* C10: a registration adds the module and its own commands and handlers to
\* a registry that holds none of them and leaves the rest as it is; an
\* unregistration removes exactly the module, its commands and its handlers
\* and keeps the order of the others' handlers, so one after the other
\* restores the command table and the handler lists; unregistering a module
\* that is not active fails and changes nothing.
C10_RegisterUnregister ==
    [][LET m == lastOp'.m
       IN /\ (lastOp'.op = "register" /\ lastOp'.err = "none") =>
                /\ m \notin DOMAIN modules /\ DOMAIN modules' = DOMAIN modules \cup {m}
                /\ CommandsOfOthers(commands', m) = commands
                /\ HandlersOfOthers(handlers', m) = HandlersOfOthers(handlers, "")
          /\ (lastOp'.op = "unregister" /\ lastOp'.err = "none") =>
                /\ m \in DOMAIN modules /\ modules' = [k \in DOMAIN modules \ {m} |-> modules[k]]
                /\ commands' = CommandsOfOthers(commands, m)
                /\ HandlersOfOthers(handlers', "") = HandlersOfOthers(handlers, m)
                /\ m \notin DOMAIN mhandlers'
          /\ (lastOp'.op = "unregister" /\ m \notin DOMAIN modules) =>
                /\ lastOp'.err = "ValueError"
                /\ UNCHANGED <<modules, commands, handlers, mhandlers>>]_vars

\* a module was unregistered from among others: their commands and their
\* handlers, registered before and after its own, are what is left
C10_Witness ==
    /\ lastOp = [op |-> "unregister", m |-> "D", err |-> "none"]
    /\ DOMAIN modules = {"A", "E"}
    /\ Get(handlers, <<"X">>) = <<Handler("E", "e1"), Handler("A", "a1")>>
    /\ DOMAIN commands = {<<<<"foo">>>>, <<<<"bar">>, <<"on">>>>}

\* C11: a reload that does not succeed, at whichever step it fails, leaves
\* the old instance registered with all its commands and handlers, and
\* reload() reports it by returning False.
C11_FailedReloadKeepsOld ==
    [][(lastOp'.op = "reload" /\ lastOp'.err # "True") =>
          /\ lastOp'.err = "False"
          /\ UNCHANGED <<modules, commands, handlers, mhandlers>>]_vars

\* the calls of module listeners in a log
MEvents(l) == SelectSeq(l, LAMBDA e : e.t = "mevent")

\* C12 as stated: on a successful reload the new instance gets its init
\* event with the old instance's state container, then the old instance
\* gets its reload event, while it is still registered.
C12_InitThenReload ==
    [][(lastOp'.op = "reload" /\ lastOp'.err = "True") =>
          LET n == lastOp'.m
              ev == MEvents(log')
          IN \E i, j \in 1..Len(ev) :
                /\ i < j
                /\ ev[i].h = INIT /\ ev[i].ver = modules'[n].ver
                /\ ev[i].arg = modules[n].g
                /\ ev[j].h = RELOAD /\ ev[j].ver = modules[n].ver /\ ev[j].reg]_vars

\* C12: on a successful reload the old instance gets its reload event first,
\* after it has been unregistered; then the new instance is registered and
\* gets its init event with the old instance's state container, which it
\* keeps as its own; its ready event follows when the bot is ready.
C12_ReloadThenInit ==
    [][(lastOp'.op = "reload" /\ lastOp'.err = "True") =>
          LET n == lastOp'.m
              old == modules[n]
              new == modules'[n]
              ev == MEvents(log')
          IN /\ new.ver = old.ver + 1 /\ new.g = old.g
             /\ module_list'[n].ver = new.ver
             /\ Len(ev) = IF ready THEN 3 ELSE 2
             /\ ev[1] = [t |-> "mevent", line |-> 0, h |-> RELOAD, m |-> n,
                         ver |-> old.ver, arg |-> None, reg |-> FALSE]
             /\ ev[2] = [t |-> "mevent", line |-> 0, h |-> INIT, m |-> n,
                         ver |-> new.ver, arg |-> old.g, reg |-> TRUE]
             /\ ready => (ev[3].h = READY /\ ev[3].ver = new.ver /\ ev[3].reg)]_vars

\* module A was reloaded next to another loaded module and holds the state
\* container of its first instance
C12_Witness ==
    /\ lastOp = [op |-> "reload", m |-> "A", err |-> "True"]
    /\ "B" \notin DOMAIN modules /\ "E" \in DOMAIN modules
    /\ modules["A"].ver = 2 /\ modules["A"].g = <<"g", "A", 1>>
    /\ Len(MEvents(log)) = 2
\* ----------------------------------------------- modules on a connection
\* the lines the server sends to a bot with modules
L_X_B == <<"X", SP, "B", LF>>
L_X_D == <<"X", SP, "D", LF>>
L_WELCOME == <<COLON, "srv", SP, "001", SP, "Bob", SP, COLON, "hi", CR, LF>>
\* ':al!u@h PRIVMSG Bob :<text>', a message to the bot's nick
Privmsg(text) ==
    <<COLON, "al", "!", "u", "@", "h", SP, "PRIVMSG", SP, "Bob", SP, COLON>>
    \o text \o <<CR, LF>>
L_MISS == Privmsg(<<"nosuch", SP, "w1">>)
L_FOO == Privmsg(<<"foo", SP, "w1">>)
L_FOO_NONE == Privmsg(<<"foo">>)
L_FOO_OPT == Privmsg(<<"foo", SP, "w1", SP, "--bogus">>)
L_BAR_OPT == Privmsg(<<"bar", SP, "on", SP, "w1", SP, "--bogus", SP, "w2">>)
L_BAR_NONE == Privmsg(<<"bar", SP, "on", SP, "--bogus">>)
L_VAR_OPT == Privmsg(<<"Foo", SP, "--bogus">>)
L_QUX == Privmsg(<<"qux">>)
CmdLines == {L_WELCOME, L_PING, L_MISS, L_FOO, L_FOO_NONE, L_FOO_OPT,
             L_BAR_OPT, L_BAR_NONE, L_VAR_OPT, L_QUX}
UnloadLines == {L_X_B, L_X_D, L_PING}
\* lines the server sends on one connection
MaxCmdLines == 3
\* the modules the application loads
CmdModules == {"A", "B", "D"}

\* module.init_bot(bot) for the modules of the application, before run()
CmdLoad(n) ==
    /\ loop = "init"
    /\ LoadModule(module_list[n])

\* Bot.run with a connect that succeeds at once
CmdRun ==
    /\ loop = "init"
    /\ Commit([Connect(Cur, [kind |-> "pairs", res |-> <<TRUE>>]) EXCEPT
                   !.sigw = TRUE, !.loop = "running"], "run")

\* the server sends one line
CmdPeerSend(line) ==
    /\ loop = "running"
    /\ sock
    /\ npeer < MaxCmdLines
    /\ net' = net \o line
    /\ npeer' = npeer + 1
    /\ UNCHANGED <<loop, debug, sock, watcher, stop_loop, writebuf, readbuf, nick,
                   server, ready, tmr, sigw, queued, wire, log, lastData,
                   lastExc, stoppedBy, readyCalled, handlers, registryVars,
                   IRC_TRIGGER, adminVars>>

\* the server sends one line: the welcome first, then the others
CmdServerSend(line) ==
    /\ (npeer = 0) = (line = L_WELCOME)
    /\ CmdPeerSend(line)

\* Bot._io_cb, called when the socket has all the server's bytes to read or
\* takes all the bytes there are to write
CmdIo ==
    /\ loop = "running"
    /\ watcher.obj /\ watcher.active
    /\ LET revents == {e \in watcher.events : e = EV_WRITE \/ net # <<>>}
           s1 == IF EV_READ \in revents
                 THEN IoRead(Cur, [kind |-> "data", k |-> Len(net)]) ELSE Cur
           s2 == IF EV_WRITE \in revents
                 THEN IoWrite(s1, [kind |-> "sent", n |-> Len(s1.writebuf)]) ELSE s1
       IN /\ revents # {}
          /\ Commit(IoStop(s2), "io")

NextCmd ==
    \/ \E n \in CmdModules : CmdLoad(n)
    \/ CmdRun
    \/ \E line \in CmdLines : CmdServerSend(line)
    \/ CmdIo

SpecCmd == Init /\ [][NextCmd]_vars

NextUnload ==
    \/ \E n \in CmdModules : CmdLoad(n)
    \/ CmdRun
    \/ \E line \in UnloadLines : CmdPeerSend(line)
    \/ CmdIo
    \/ SigCb

SpecUnload == Init /\ [][NextUnload]_vars

\* how often x occurs in the sequence l
Count(l, x) == Cardinality({i \in DOMAIN l : l[i] = x})

\* C13: when a handler that runs during the dispatch of a line or of a
\* broadcast event unregisters a module, the dispatch does not fail, and
\* every handler (every module) still registered afterwards has been called
\* exactly once for each line of that command (for the event).
C13_UnregisterInDispatch ==
    [][(modules' # modules /\ lastOp' = NoOp) =>
          /\ lastExc' = "none"
          /\ \A n \in DOMAIN LinesOf(lastData') :
                LET hs == Get(handlers', CommandOf(LinesOf(lastData')[n]))
                IN \A i \in DOMAIN hs :
                      Count(log', Entry("handler", n, hs[i].f)) = Count(hs, hs[i])
          /\ \A i \in DOMAIN log' :
                (log'[i].t = "event" /\ log'[i].h \in COMMON_EVENTS) =>
                   \A m \in DOMAIN modules' :
                      Cardinality({j \in DOMAIN log' :
                          /\ log'[j].t = "mevent" /\ log'[j].h = log'[i].h
                          /\ log'[j].m = m}) = 1]_vars
\* ------------------------------------------------- ready and reconnecting
ReadyLines == {L_WELCOME, L_ERROR, L_PING}

NextReady ==
    \/ CmdRun
    \/ \E line \in ReadyLines : CmdPeerSend(line)
    \/ CmdIo
    \/ ReconnectCb
    \/ AppTriggerReady

SpecReady == Init /\ [][NextReady]_vars

\* the bot-level listeners of ready were each called once in log l
ReadyFired(l) ==
    \A i \in DOMAIN BotListeners(READY) :
        Count(l, Entry("listener", 0, BotListeners(READY)[i])) = 1

\* no bot-level listener of ready was called in log l
ReadyQuiet(l) ==
    \A i \in DOMAIN l : l[i].t # "listener"

\* the step is a callback or a call whose log holds entry e (a line that
\* arrives is no callback and leaves the log as it is)
Did(e) == npeer' <= npeer /\ e \in {log'[i] : i \in DOMAIN log'}

C15_ReadyOnRegister ==
    [][LET ev == MEvents(log')
           m == lastOp'.m
       IN /\ (lastOp'.op = "register" /\ lastOp'.err = "none") =>
                /\ Len(ev) = IF ready THEN 2 ELSE 1
                /\ ev[1].h = INIT /\ ev[1].m = m /\ ev[1].reg
                /\ ready => (ev[2].h = READY /\ ev[2].m = m /\ ev[2].reg
                              /\ ev[2].ver = ev[1].ver)
          /\ (Did(Entry("call", 0, "trigger_ready")) /\ ~ready) =>
                \A n \in DOMAIN modules :
                   Cardinality({i \in DOMAIN ev : ev[i].h = READY /\ ev[i].m = n}) = 1
          /\ \A i \in DOMAIN ev :
                (ev[i].h = READY /\ npeer' <= npeer) =>
                   \/ ready /\ lastOp'.op \in {"register", "reload"} /\ m = ev[i].m
                   \/ ~ready /\ Did(Entry("call", 0, "trigger_ready"))]_vars

\* module E was registered on a ready bot next to module A, which had been
\* registered before the bot was ready
C15_Witness ==
    /\ ready
    /\ lastOp = [op |-> "register", m |-> "E", err |-> "none"]
    /\ DOMAIN modules = {"A", "E"}
    /\ Len(MEvents(log)) = 2 /\ MEvents(log)[2].h = READY
    /\ Get(handlers, <<"X">>) = <<Handler("A", "a1"), Handler("E", "e1")>>

\* C16: the callback that processes the welcome line (001) of a connection
\* leaves the ready flag set, the nickname the line's first argument and the
\* server the line's source.
C16_WelcomeSetsReady ==
    [][((\E n \in 1..MaxCmdLines : Did(Entry("handler", n, "_handle_welcome")))
        /\ lastExc' = "none" /\ sock') =>
          (ready' /\ nick' = <<"Bob">> /\ server' = <<"srv">>)]_vars

\* C17: a callback that handles a command invocation for which the lookup
\* finds no command queues a notice to the sender.
C17_MissNotice ==
    [][(Did(Entry("lookup", 0, "None")) /\ lastExc' = "none" /\ sock') =>
          Count(queued', "NOTICE ") > Count(queued, "NOTICE ")]_vars

\* what the handler _handle_privmsg did for line n of the last read: the
\* entries of log l after its call, up to the next handler's call
SegmentOf(l, n) ==
    LET i == IndexOf(l, Entry("handler", n, "_handle_privmsg"))
        later == {j \in DOMAIN l : j > i /\ l[j].t = "handler"}
        j == IF later = {} THEN Len(l) + 1
             ELSE CHOOSE k \in later : \A k2 \in later : k <= k2
    IN IF i = 0 THEN <<>> ELSE SubSeq(l, i + 1, j - 1)

\* the line invokes its command with an option the command does not declare,
\* or without the positional argument the command requires
BadArguments(line) ==
    \/ \E i \in DOMAIN line : line[i] = "--bogus"
    \/ Last(line) = "foo"

\* C18: an invocation of a registered command, greedy and *args commands
\* included, that lacks a required positional argument or carries an option
\* the command does not declare never calls the command's function: it is
\* aborted, and the usage is queued as notices to the sender.
C18_BadArgumentsAbort ==
    [][\A n \in DOMAIN LinesOf(lastData') :
          LET seg == SegmentOf(log', n)
          IN (/\ npeer' <= npeer
              /\ BadArguments(LinesOf(lastData')[n])
              /\ \E i \in DOMAIN seg : seg[i] = Entry("event", 0, BEFORE_COMMAND)) =>
                /\ \A i \in DOMAIN seg : seg[i].t # "command"
                /\ \E i \in DOMAIN seg : seg[i].t = "abort"
                /\ Count(queued', "NOTICE ") > Count(queued, "NOTICE ")]_vars

\* C19: a callback in which a command's function fails with an error other
\* than an abort leaves the loop running and the connection as it is, with
\* its watcher active, and has dispatched every complete line that was
\* buffered behind the failing one.
C19_CommandErrorContained ==
    [][(npeer' <= npeer /\ Entry("command", 0, <<"qux">>) \in {log'[i] : i \in DOMAIN log'}) =>
          /\ loop' = "running" /\ sock' /\ watcher'.obj /\ watcher'.active
          /\ nick' = <<"Bob">> /\ ready' = ready
          /\ IndexOf(readbuf', LF) = 0
          /\ Len(SelectSeq(log', LAMBDA e : e.t = "handler")) = Len(LinesOf(lastData'))]_vars

\* C20: for every invocation whose lookup finds a command, before_command
\* goes to the bot-level listeners first, then to the listeners of the
\* module that owns the command and to no other module, and only then the
\* command is called; an invocation whose lookup finds nothing fires no
\* before_command at all.  (The log and the data are those of the last read;
\* the modules are loaded before run() and stay.)
C20_BeforeCommand ==
    \A n \in DOMAIN LinesOf(lastData) :
       LET msg == IRCMessage(LinesOf(lastData)[n])
           seg == SelectSeq(SegmentOf(log, n), LAMBDA e : e.t # "channel")
           r == Lookup(commands, msg.args[2])
       IN Entry("handler", n, "_handle_privmsg") \in {log[i] : i \in DOMAIN log} =>
             IF r.found
             THEN /\ Len(seg) = 4
                  /\ seg[1] = Entry("event", 0, BEFORE_COMMAND)
                  /\ seg[2] = Entry("listener", 0, "bc1")
                  /\ seg[3] = [t |-> "mevent", line |-> 0, h |-> BEFORE_COMMAND,
                               m |-> r.function.owner,
                               ver |-> modules[r.function.owner].ver,
                               arg |-> r.function.name, reg |-> TRUE]
                  /\ seg[4] \in {Entry("command", 0, r.function.name),
                                 Entry("abort", 0, r.function.name)}
             ELSE seg = <<Entry("lookup", 0, "None")>>

\* a command of module A was called while module D was loaded too
C20_Witness ==
    /\ DOMAIN modules = {"A", "D"}
    /\ \E i \in DOMAIN log : log[i] = Entry("command", 0, <<"foo">>)
    /\ lastExc = "none"
\* ------------------------------------------------------------ the trigger
\* ':al!u@h PRIVMSG <dest> :<text>'
PrivmsgTo(dest, text) ==
    <<COLON, "al", "!", "u", "@", "h", SP, "PRIVMSG", SP>> \o dest \o <<SP, COLON>>
    \o text \o <<CR, LF>>
T_CHAN_TRIG == PrivmsgTo(<<"#c">>, <<"!", "foo", SP, "w1">>)
T_CHAN_PLAIN == PrivmsgTo(<<"#c">>, <<"foo", SP, "w1">>)
T_CHAN_MISS == PrivmsgTo(<<"#c">>, <<"!", "nosuch">>)
T_NICK_TRIG == PrivmsgTo(<<"Bob">>, <<"!", "foo", SP, "w1">>)
TrigLines == {L_WELCOME, L_FOO, T_CHAN_TRIG, T_CHAN_PLAIN, T_CHAN_MISS, T_NICK_TRIG}
\* the values of app.config['IRC_TRIGGER']: unset, empty, '!'
Triggers == {None, <<>>, <<"!">>}

InitTrig ==
    /\ InitBotState
    /\ IRC_TRIGGER \in Triggers

NextTrig ==
    \/ \E n \in {"A", "D"} : CmdLoad(n)
    \/ CmdRun
    \/ \E line \in TrigLines : CmdServerSend(line)
    \/ CmdIo

SpecTrig == InitTrig /\ [][NextTrig]_vars

\* what _handle_privmsg did for line n of the last read is what the claim
\* says of a message with that destination and text
PrivmsgAsClaimed(n) ==
    LET msg == IRCMessage(LinesOf(lastData)[n])
        dest == msg.args[1]
        text == msg.args[2]
        direct == dest = nick
        triggered == /\ ~direct /\ IRC_TRIGGER \notin {None, <<>>}
                     /\ StartsWith(text, IRC_TRIGGER)
        looked == IF direct THEN text ELSE SubSeq(text, Len(IRC_TRIGGER) + 1, Len(text))
        r == Lookup(commands, looked)
        seg == SegmentOf(log, n)
    IN IF ~(direct \/ triggered) THEN seg = <<>>
       ELSE IF ~r.found THEN seg = <<Entry("lookup", 0, "None")>>
       ELSE /\ Len(seg) = 5
            /\ seg[3].t = "mevent" /\ seg[3].arg = r.function.name
            /\ seg[4] = Entry("command", 0, r.function.name)
            /\ seg[5] = Entry("channel", 0, IF direct THEN None ELSE dest)
            /\ Join(r.args, SP) = <<"w1">>

\* C21: a PRIVMSG to the bot's nickname is looked up on its full text and the
\* command runs without a channel; any other PRIVMSG is looked up only when a
\* trigger is configured and the text starts with it, on the text behind the
\* trigger, and the command runs with the destination as channel; in every
\* other case no command runs, and a read in which no command ran and no
\* lookup failed has queued nothing.
C21_Trigger ==
    /\ [](\A n \in DOMAIN LinesOf(lastData) :
             Entry("handler", n, "_handle_privmsg") \in {log[i] : i \in DOMAIN log}
                => PrivmsgAsClaimed(n))
    /\ [][(/\ npeer' <= npeer /\ lastData' # <<>>
           /\ \A i \in DOMAIN log' : log'[i].t = "handler") => queued' = queued]_vars

\* with the trigger '!' configured, a channel message that starts with it
\* has run the command foo with the channel
C21_Witness ==
    /\ IRC_TRIGGER = <<"!">>
    /\ \E i \in DOMAIN log : log[i] = Entry("channel", 0, <<"#c">>)
    /\ \E i \in DOMAIN log : log[i] = Entry("command", 0, <<"foo">>)
    /\ lastExc = "none"
\* ------------------------------------------------------------- ping, pong
\* the bytes of 'PONG :X' + CRLF for every line of lines that is a PING with
\* an argument X, in the order of the lines
RECURSIVE Pongs(_)
Pongs(lines) ==
    IF lines = <<>> THEN <<>>
    ELSE LET msg == IRCMessage(Head(lines))
         IN (IF msg.err = "none" /\ msg.cmd = <<"PING">>
             THEN EncodeUtf8(<<"PONG :">> \o msg.args[1]) \o <<CRLF>> ELSE <<>>)
            \o Pongs(Tail(lines))

\* C22: a read on a connection that stays open queues, for each PING line
\* with an argument X that it received, the line 'PONG :X' + CRLF, once, in
\* the order of arrival, and queues nothing else (the bot's own handler being
\* the only handler of PING).
C22_PingPong ==
    [][(/\ npeer' <= npeer /\ lastData' # <<>> /\ sock'
        /\ Get(handlers, <<"PING">>) = <<H_PING>>)
       => queued' = queued \o Pongs(LinesOf(lastData'))]_vars
\* ------------------------------------------------------- reconnect attempts
\* the loop runs the reconnect timer's callback when the timer is due
SpecReadyFair == SpecReady /\ WF_vars(ReconnectCb)

\* the step is a callback in which a connect attempt failed or the connection
\* dropped
FailureStep ==
    \/ Did(Entry("connect", 0, "failed"))
    \/ Did(Entry("connect", 0, "nolocal"))
    \/ Did(Entry("connect", 0, "noremote"))
    \/ Did(Entry("event", 0, DISCONNECT))

\* C23: each failed connect attempt and each connection drop in a running
\* loop leaves one connect attempt pending, the reconnect timer restarted; the
\* timer's callback disarms the timer before it connects, so that an attempt
\* that succeeds leaves none pending; and a bot without a connection gets
\* its next attempt: it does not stay disconnected with no attempt to come.
C23_ReconnectOnce ==
    /\ [][(FailureStep /\ loop' = "running") => tmr']_vars
    /\ [][(Did(Entry("connect", 0, "ok")) /\ sock') => ~tmr']_vars
    /\ (loop = "running" /\ ~sock) ~> (loop # "running" \/ sock)
\* ------------------------------------------------- the command table alone
\* the names and the lines a CommandStorage is used with
TableNames == {<<"foo">>, <<"Foo">>, <<"bar">>, <<"bar", SP, "ON">>,
               <<"bar", SP, "on", SP, "w1">>, <<"BAZ">>}
TableLines == {<<"bar", SP, "ON", SP, "w1", SP, "Foo">>, <<"bar", SP, "ON", SP, "Foo">>,
               <<"bar", SP, "w1">>, <<"BAZ", SP, "ON">>, <<"Foo">>, <<"w1", SP, "foo">>,
               <<>>}

\* one operation on the table: the table it leaves, what it raised, and what
\* it returned
TableOp(d, op, name, err, out) ==
    /\ commands' = d
    /\ lastOp' = [op |-> op, m |-> name, err |-> err]
    /\ log' = out
    /\ UNCHANGED <<loop, debug, sock, watcher, stop_loop, writebuf, readbuf, nick,
                   server, ready, tmr, sigw, net, npeer, queued, wire, lastData,
                   lastExc, stoppedBy, readyCalled, handlers, modules, mhandlers,
                   module_list, IRC_TRIGGER, adminVars>>

\* cs[name] = value
TableSet(name) ==
    LET res == SetItem(commands, name, [name |-> name, owner |-> "app"])
    IN TableOp(res.d, "set", name, res.err, <<>>)

\* del cs[name]
TableDel(name) ==
    LET res == DelItem(commands, name)
    IN TableOp(res.d, "del", name, res.err, <<>>)

\* cs.lookup(line)
TableLookup(line) ==
    TableOp(commands, "lookup", line, "none", <<Lookup(commands, line)>>)

NextTable ==
    \/ \E name \in TableNames : TableSet(name)
    \/ \E name \in TableNames : TableDel(name)
    \/ \E line \in TableLines : TableLookup(line)

SpecTable == Init /\ [][NextTable]_vars

\* C24: lookup returns the entry registered under the longest prefix of the
\* line's lower-cased tokens that is a registered word sequence, and the
\* tokens behind that prefix as they were written; when no prefix is
\* registered it returns no entry and all the tokens.
C24_LongestPrefix ==
    lastOp.op = "lookup" =>
        LET toks == Split(lastOp.m, SP)
            low == [i \in 1..Len(toks) |-> Lower(toks[i])]
            hits == {k \in 0..Len(toks) : SubSeq(low, 1, k) \in DOMAIN commands}
            r == log[1]
        IN IF hits = {}
           THEN ~r.found /\ r.function.name = None /\ r.args = toks
           ELSE LET k == CHOOSE i \in hits : \A j \in hits : j <= i
                IN /\ r.found
                   /\ r.function = commands[SubSeq(low, 1, k)]
                   /\ r.args = SubSeq(toks, k + 1, Len(toks))

\* with 'bar', 'bar ON' and 'foo' in the table, the line 'bar ON Foo' found
\* 'bar ON' and left the token 'Foo'
C24_Witness ==
    /\ lastOp.op = "lookup"
    /\ lastOp.m = <<"bar", SP, "ON", SP, "Foo">>
    /\ DOMAIN commands = {<<<<"bar">>>>, <<<<"bar">>, <<"on">>>>, <<<<"foo">>>>}
    /\ log[1].found /\ log[1].function.name = <<"bar", SP, "ON">>
    /\ log[1].args = <<<<"Foo">>>>

\* C25: setting a name whose lower-cased word sequence is in the table fails
\* and deleting a name whose word sequence is not in it fails, and both leave
\* the table as it was; a set that succeeds adds one entry under the name's
\* word sequence and a delete that succeeds removes that one entry, so the
\* size of the table is the number of names set and not deleted since; every
\* key is a lower-cased word sequence, which holds one entry.
C25_SetDelete ==
    [][LET name == lastOp'.m
           key == GetKey(name)
           size == Cardinality(DOMAIN commands)
       IN /\ lastOp'.op = "set" =>
                IF key \in DOMAIN commands
                THEN lastOp'.err = "ValueError" /\ commands' = commands
                ELSE /\ lastOp'.err = "none"
                     /\ commands' = Put(commands, key, [name |-> name, owner |-> "app"])
                     /\ Cardinality(DOMAIN commands') = size + 1
          /\ lastOp'.op = "del" =>
                IF key \notin DOMAIN commands
                THEN lastOp'.err = "KeyError" /\ commands' = commands
                ELSE /\ lastOp'.err = "none"
                     /\ commands' = [k \in DOMAIN commands \ {key} |-> commands[k]]
                     /\ Cardinality(DOMAIN commands') = size - 1
          /\ \A k \in DOMAIN commands' :
                /\ k = [i \in 1..Len(k) |-> Lower(k[i])]
                /\ GetKey(commands'[k].name) = k]_vars

\* 'Foo' was refused while the table held 'foo', and 'BAZ' is held under baz
C25_Witness ==
    /\ lastOp.op = "set" /\ lastOp.m = <<"Foo">> /\ lastOp.err = "ValueError"
    /\ DOMAIN commands = {<<<<"foo">>>>, <<<<"baz">>>>}
    /\ commands[<<<<"foo">>>>].name = <<"foo">>
\* ------------------------------------------------- binding arguments alone
\* the tokens of an invocation, and the invocations of up to MaxTokens tokens
BindTokens == {<<"urgent">>, <<"need">>, <<"restart">>, <<"--bogus">>, <<"--force">>}
MaxTokens == 3
BindArgs == UNION {[1..n -> BindTokens] : n \in 0..MaxTokens}
BindNames == {<<"die">>, <<"move">>, <<"bar", SP, "ON">>, <<"foo">>, <<"Foo">>}

\* cmd(source, channel, args) up to the call of the command's function
BindCall(name, args) ==
    LET b == Bind(CommandFunc(name), args)
    IN TableOp(commands, "bind", name, b.err, <<b, [args |-> args]>>)

NextBind == \E name \in BindNames, args \in BindArgs : BindCall(name, args)

SpecBind == Init /\ [][NextBind]_vars

\* C26: a greedy command whose invocation has a token for each positional
\* parameter is called with the last positional parameter bound to the token
\* consumed for it followed by all the tokens left unconsumed (the options
\* it does not declare and the surplus positionals), joined by single spaces
\* in their input order; the parameters before it get their own tokens, the
\* switches given are on, and no leftover token is passed separately.
C26_GreedyLast ==
    (lastOp.op = "bind" /\ CommandFunc(lastOp.m).greedy) =>
        LET f == CommandFunc(lastOp.m)
            b == log[1]
            args == log[2].args
            idx == SelectSeq([i \in 1..Len(args) |-> i], LAMBDA i : ~IsOption(args[i]))
            consumed == {idx[k] : k \in 1..Min(f.npos, Len(idx))}
                        \cup {i \in 1..Len(args) : args[i] \in f.flags}
            left == SelectSeq([i \in 1..Len(args) |-> i], LAMBDA i : i \notin consumed)
        IN Len(idx) >= f.npos =>
              /\ b.err = "none"
              /\ Len(b.call) = f.npos
              /\ \A k \in 1..(f.npos - 1) : b.call[k] = args[idx[k]]
              /\ b.call[f.npos] =
                    Join(<<args[idx[f.npos]]>> \o [k \in 1..Len(left) |-> args[left[k]]], SP)
              /\ b.on = {a \in f.flags : \E i \in 1..Len(args) : args[i] = a}

\* the function with the parameters (reason, force=False), greedy, was called
\* with reason = 'urgent need restart' and force off
C26_Witness ==
    /\ lastOp.op = "bind" /\ lastOp.m = <<"die">>
    /\ log[2].args = <<<<"urgent">>, <<"need">>, <<"restart">>>>
    /\ log[1].call = <<<<"urgent", SP, "need", SP, "restart">>>>
    /\ log[1].on = {}
\* ------------------------------------------------------------ parsing lines
\* C27: for every line of a read that is non-empty after its trailing
\* carriage return is stripped, the line parser returns a message and raises
\* no error, so that the read goes on to dispatch it.
C27_ParseTotal ==
    \A n \in DOMAIN LinesOf(lastData) :
        LinesOf(lastData)[n] # <<>> =>
            Entry("raise", n, "IRCMessage") \notin {log[i] : i \in DOMAIN log}
\* ------------------------------------------------------ the candidate pairs
\* a connect attempt, with what each candidate pair did put on record
ConnectRecorded(s, o) ==
    LET s1 == Connect(s, o)
    IN IF o.kind # "pairs" THEN s1
       ELSE [s1 EXCEPT !.log = Append(@, [t |-> "pairs", line |-> SocketsMade(o.res),
                                          h |-> "res", res |-> o.res])]

\* Bot.run
PairsRun ==
    /\ loop = "init"
    /\ \E o \in ConnectOutcomes :
         Commit([ConnectRecorded(Cur, o) EXCEPT !.sigw = TRUE, !.loop = "running"], "run")

\* Bot._reconnect_cb
PairsReconnectCb ==
    /\ loop = "running"
    /\ tmr
    /\ \E o \in ConnectOutcomes :
         Commit(ConnectRecorded([Cur EXCEPT !.tmr = FALSE], o), "tmr")

NextPairs ==
    \/ PairsRun
    \/ PairsReconnectCb
    \/ \E line \in ReadyLines : CmdPeerSend(line)
    \/ CmdIo

SpecPairs == Init /\ [][NextPairs]_vars

\* C28: a connect attempt over the candidate pairs establishes the
\* connection if and only if at least one pair succeeds, makes no socket for
\* a pair behind the first that succeeds, and reports failure, with a
\* reconnect scheduled, only when every pair has failed.
C28_FirstPairWins ==
    \A i \in DOMAIN log :
        log[i].t = "pairs" =>
            LET res == log[i].res
                good == {k \in DOMAIN res : res[k]}
            IN /\ InLog("connect", "ok") <=> good # {}
               /\ InLog("connect", "failed") <=> good = {}
               /\ good # {} => \E k \in good : /\ \A j \in good : k <= j
                                                /\ log[i].line = k
\* ------------------------------------------------------- the graceful stop
\* C29: a graceful stop request leaves the read-interest of the connection's
\* watcher as it is, and it stays while the stop is pending, so that the
\* lines that arrive before the loop stops are read.
C29_StopKeepsRead ==
    [][((stop_loop' /\ watcher.obj /\ watcher'.obj) =>
          (EV_READ \in watcher.events => EV_READ \in watcher'.events))]_vars
\* ------------------------------------------------------- delayed callbacks
\* ':al!u@h PRIVMSG Bob :die now'
L_DIE == Privmsg(<<"die", SP, "now">>)
AfterLines == {L_WELCOME, L_DIE}

\* import flask_irc.modules.admin: BotModule.__init__ enters the new module
\* in module_list
ImportAdmin ==
    /\ loop = "init"
    /\ "Admin" \notin DOMAIN module_list
    /\ module_list' = Put(module_list, "Admin", ModAdmin)
    /\ UNCHANGED <<engineVars, handlers, modules, commands, mhandlers, lastOp,
                   IRC_TRIGGER, adminVars>>

\* bot.load_module('Admin')
AdminLoad ==
    /\ "Admin" \in DOMAIN module_list
    /\ "Admin" \notin DOMAIN modules
    /\ LoadModule(module_list["Admin"])

\* bot.modules['Admin'].unload()
AdminUnload ==
    /\ "Admin" \in DOMAIN modules
    /\ UnloadModule(modules["Admin"])

\* the first timer in the list fires: the cb of Bot.after removes it from
\* _timers and calls its func, the _expire of a die
TimerCb ==
    /\ loop = "running"
    /\ timers # <<>>
    /\ LET src == Head(timers).func.src
           s1 == [Cur EXCEPT !.timers = Tail(@)]
       IN Commit(IF src \in s1.confirm
                 THEN [Log(s1, "call", 0, "_expire") EXCEPT !.confirm = @ \ {src}]
                 ELSE Raise(Log(Log(s1, "call", 0, "_expire"), "raise", 0, "_expire"),
                            "KeyError"),
                 "after")

NextAfter ==
    \/ ImportAdmin
    \/ AdminLoad
    \/ AdminUnload
    \/ ReloadModule("Admin", "same")
    \/ CmdRun
    \/ \E line \in AfterLines : CmdServerSend(line)
    \/ CmdIo
    \/ TimerCb

SpecAfter == Init /\ [][NextAfter]_vars

\* C30: whenever a timer made by after() fires, also after the module that
\* made it was unloaded or loaded again, its callback completes without an
\* error and takes that one timer, and no other, off the bot's timer list.
C30_AfterHarmless ==
    [][Len(timers') < Len(timers) =>
          (lastExc' = "none" /\ timers' = Tail(timers))]_vars
\* ------------------------------------------- the table and the loaded modules
\* C31: after any sequence of loads, unloads and reloads, failed ones
\* included, the command table holds exactly the commands the loaded modules
\* declare: every entry is a command of a loaded module, and every command of
\* a loaded module is the entry under its own key.
C31_TableIsLoadedCommands ==
    /\ \A k \in DOMAIN commands :
          /\ commands[k].owner \in DOMAIN modules
          /\ \E i \in DOMAIN modules[commands[k].owner].commands :
                modules[commands[k].owner].commands[i] = commands[k].name
    /\ \A n \in DOMAIN modules : \A i \in DOMAIN modules[n].commands :
          LET c == modules[n].commands[i]
          IN /\ GetKey(c) \in DOMAIN commands
             /\ commands[GetKey(c)] = [name |-> c, owner |-> n]
\* ------------------------------------------------ loading in a ready listener
\* the application imports the python module of L: BotModule.__init__ enters
\* the new module in module_list
ImportL ==
    /\ loop = "init"
    /\ "L" \notin DOMAIN module_list
    /\ module_list' = Put(module_list, "L", ModL)
    /\ UNCHANGED <<engineVars, handlers, modules, commands, mhandlers, lastOp,
                   IRC_TRIGGER, adminVars>>

\* bot.load_module(n), called by the application at any time
AppLoad(n) ==
    /\ n \in DOMAIN module_list
    /\ n \notin DOMAIN modules
    /\ LoadModule(module_list[n])

NextLoadReady ==
    \/ ImportL
    \/ \E n \in {"A", "L"} : AppLoad(n)
    \/ CmdRun
    \/ \E line \in {L_WELCOME, L_ERROR} : CmdPeerSend(line)
    \/ CmdIo
    \/ ReconnectCb
    \/ AppTriggerReady

SpecLoadReady == Init /\ [][NextLoadReady]_vars

\* C32: no call, whether trigger_ready() or a load, and so no connection
\* lifetime, sees the ready listener of a loaded module called more than
\* once, also when a listener of the ready event loads the module.
C32_ModuleReadyOnce ==
    \A n \in DOMAIN modules :
        Cardinality({i \in DOMAIN log :
                        log[i].t = "mevent" /\ log[i].h = READY /\ log[i].m = n}) <= 1
\* ------------------------------------------------ the end of a graceful stop
\* Bot._io_cb called for a socket that is ready to write, whose sock.send()
\* fails with an error other than would-block
IoWriteError ==
    /\ loop = "running"
    /\ watcher.obj /\ watcher.active
    /\ EV_WRITE \in watcher.events
    /\ Commit(IoStop(IoWrite(Cur, [kind |-> "error", n |-> 0])), "io")

NextStop ==
    \/ CmdRun
    \/ CmdPeerSend(L_PING)
    \/ CmdIo
    \/ IoWriteError
    \/ AppStop(TRUE)
    \/ ReconnectCb

SpecStop == Init /\ [][NextStop]_vars

\* the I/O watcher is active and the socket is ready for an event it watches:
\* the condition under which the loop calls the I/O callback
IoDue ==
    /\ loop = "running"
    /\ watcher.obj /\ watcher.active
    /\ \E e \in watcher.events : e = EV_WRITE \/ net # <<>>

\* the loop calls the I/O callback while the socket stays ready, and the
\* reconnect callback once its timer is due
SpecStopFair ==
    /\ SpecStop
    /\ WF_vars(ReconnectCb)
    /\ ([]<>(~IoDue) \/ []<><<CmdIo>>_vars)

\* C33: once a graceful stop is pending on a running loop the loop stops,
\* also when a write error closes the connection first, and a stopped loop
\* has no stop pending.
C33_GracefulStopEnds ==
    /\ (stop_loop /\ loop = "running") ~> (loop = "stopped")
    /\ [](loop = "stopped" => ~stop_loop)
\* ------------------------------------------------------- chunks of a stream
\* the reads one byte stream may arrive in
MaxChunks == 3

\* byte streams of the server: two lines; a line that does not parse in front
\* of one that does; a line and the beginning of the next
ChunkStreams == {L_PING \o L_PING, L_NOARG \o L_PING, L_PING \o <<"ping", SP>>}

RECURSIVE Sum(_)
Sum(ks) == IF ks = <<>> THEN 0 ELSE Head(ks) + Sum(Tail(ks))

\* the sizes of the chunks in which sock.recv(1024) may return n bytes
Chunkings(n) ==
    {ks \in UNION {[1..m -> 1..Min(n, RecvSize)] : m \in 1..MaxChunks} : Sum(ks) = n}

\* the loop calls Bot._io_cb once for each chunk that arrives, and
\* Bot._io_read takes the chunk from sock.recv; the log keeps the chunks and
\* all the calls made.  After a callback that an exception escaped the loop
\* goes on calling (cont) or not, as pyev is set up
RECURSIVE ReadChunks(_, _, _)
ReadChunks(s, ks, cont) ==
    IF ks = <<>> \/ ~s.sock \/ (s.exc # "none" /\ ~cont) THEN s
    ELSE LET s1 == Log([s EXCEPT !.exc = "none"], "recv", 0, SubSeq(s.net, 1, Head(ks)))
         IN ReadChunks(IoRead(s1, [kind |-> "data", k |-> Head(ks)]), Tail(ks), cont)

\* the server sends a stream on a fresh connection and the bot reads it in
\* chunks
ChunkRead(stream, ks, cont) ==
    /\ loop = "running"
    /\ sock /\ watcher.obj /\ watcher.active /\ EV_READ \in watcher.events
    /\ npeer = 0
    /\ debug = "unset"
    /\ Commit(ReadChunks([Cur EXCEPT !.net = stream, !.npeer = Len(LinesOf(stream)),
                                      !.debug = IF cont THEN "off" ELSE @],
                          ks, cont), "io")

NextChunk ==
    \/ CmdRun
    \/ \E stream \in ChunkStreams : \E ks \in Chunkings(Len(stream)) :
          \E cont \in BOOLEAN : ChunkRead(stream, ks, cont)
    \/ CmdIo

SpecChunk == Init /\ [][NextChunk]_vars

\* the bytes the reads of log l returned, in order
Received(l) ==
    Flatten([i \in DOMAIN SelectSeq(l, LAMBDA e : e.t = "recv") |->
                SelectSeq(l, LAMBDA e : e.t = "recv")[i].h])

\* what was done with the lines of log l, in order: the handlers called, and
\* the parse failures
Dispatched(l) ==
    [i \in DOMAIN SelectSeq(l, LAMBDA e : e.t \in {"handler", "raise"}) |->
        SelectSeq(l, LAMBDA e : e.t \in {"handler", "raise"})[i].h]

\* the bytes of data after its last newline
RECURSIVE AfterLastLF(_)
AfterLastLF(data) ==
    IF IndexOf(data, LF) = 0 THEN data
    ELSE AfterLastLF(SubSeq(data, IndexOf(data, LF) + 1, Len(data)))

\* C34: the bytes read from a connection, in whatever chunks they arrived,
\* are dispatched as the same bytes read in one chunk are: the same lines in
\* the same order, and the read buffer left holds the bytes after the last
\* newline.
C34_ChunkingIndependent ==
    [][LET stream == Received(log')
           one == ReadChunks([Cur EXCEPT !.net = stream], <<Len(stream)>>, FALSE)
       IN (stream # <<>> /\ sock /\ npeer = 0) =>
             /\ Dispatched(log') = Dispatched(one.log)
             /\ readbuf' = one.readbuf
             /\ readbuf' = AfterLastLF(stream)]_vars
\* ------------------------------------------------------ the reconnect timer
\* C35: the reconnect timer is armed only while the bot holds no socket and
\* no I/O watcher; a connect attempt starts only while there is no socket,
\* from run() or from the timer's firing, which disarms the timer first, so
\* that a successful attempt leaves one socket with its watcher and the timer
\* disarmed.
C35_TimerOnlyWithoutSocket ==
    /\ [](tmr => (~sock /\ ~watcher.obj))
    /\ [](watcher.obj => sock)
    /\ [][(npeer' <= npeer /\ \E i \in DOMAIN log' : log'[i].t = "connect") =>
             /\ ~sock /\ ~watcher.obj
             /\ tmr \/ loop = "init"
             /\ Did(Entry("connect", 0, "ok")) => (~tmr' /\ sock')]_vars

\* the timer is armed after the connection was dropped
C35_Witness ==
    /\ loop = "running" /\ tmr /\ ~sock
    /\ InLog("event", DISCONNECT)
\* ------------------------------------------------ buffers over a reconnect
\* the bytes of the registration sequence, as Bot._connected queues them
Registration ==
    EncodeUtf8(NICK_LINE) \o <<CRLF>> \o EncodeUtf8(USER_LINE) \o <<CRLF>>

\* C36: a connection that has just been established starts with empty
\* buffers but for the registration sequence: nothing queued or read before
\* is left to be transmitted or dispatched on it, and its first outbound
\* lines are NICK and USER.
C36_CloseDiscardsBuffers ==
    [][Did(Entry("connect", 0, "ok")) =>
          (sock' /\ readbuf' = <<>> /\ writebuf' = Registration /\ wire' = <<>>)]_vars
\* ------------------------------------------------------ confirming a die
\* ':bo!u@h PRIVMSG Bob :<text>', a message of another user to the bot's nick
PrivmsgBo(text) ==
    <<COLON, "bo", "!", "u", "@", "h", SP, "PRIVMSG", SP, "Bob", SP, COLON>>
    \o text \o <<CR, LF>>
L_DIE_BO == PrivmsgBo(<<"die", SP, "now">>)
L_DIE_FORCE == Privmsg(<<"die", SP, "--force", SP, "now">>)
DieLines == {L_WELCOME, L_DIE, L_DIE_BO, L_DIE_FORCE}

\* the server sends one line once the bot has read the one before
DieServerSend(line) ==
    /\ net = <<>>
    /\ CmdServerSend(line)

NextDie ==
    \/ ImportAdmin
    \/ AdminLoad
    \/ AdminUnload
    \/ ReloadModule("Admin", "same")
    \/ CmdRun
    \/ \E line \in DieLines : DieServerSend(line)
    \/ CmdIo
    \/ TimerCb

SpecDie == Init /\ [][NextDie]_vars

\* the step is the callback that read a line of source src and ran die for it
DieBy(src) ==
    /\ Did(Entry("command", 0, <<"die">>))
    /\ LinesOf(lastData') # <<>>
    /\ IRCMessage(LinesOf(lastData')[1]).source.source = src

\* the prompt die returns, as the notice sent to nick
DiePrompt(to) ==
    EncodeUtf8(Notice(to, <<"Re-run this command within five seconds to confirm it.">>))
    \o <<CRLF>>

\* C37: a source is in the confirmation set only while a five-second expiry
\* made for it is pending; a die of a source in the set requests the stop,
\* and nothing else does; a die of a source not in the set stops nothing,
\* adds the source, schedules its expiry and sends the prompt; an expiry that
\* fires takes its source out of the set.
C37_DieConfirmed ==
    /\ [](\A src \in confirm :
            \E i \in DOMAIN timers : timers[i] = [delay |-> 5, func |-> Expire(src)])
    /\ [][\A src \in {<<"al", "!", "u", "@", "h">>, <<"bo", "!", "u", "@", "h">>} :
             DieBy(src) =>
                IF src \in confirm
                THEN /\ stop_loop' \/ loop' = "stopped"
                     /\ timers' = timers /\ confirm' = confirm
                ELSE /\ ~stop_loop' /\ loop' = "running"
                     /\ confirm' = confirm \cup {src}
                     /\ timers' = Append(timers, [delay |-> 5, func |-> Expire(src)])
                     /\ queued' = queued \o DiePrompt(SubSeq(src, 1, 1))]_vars
    /\ [][((stop_loop' /\ ~stop_loop) \/ (loop' = "stopped" /\ loop = "running"
                                            /\ ~stop_loop /\ lastExc' = "none"))
            => \E src \in confirm : DieBy(src)]_vars
    /\ [][Len(timers') < Len(timers) => Head(timers).func.src \notin confirm']_vars

\* the second die of a source, made before the expiry of the first has
\* fired, has stopped the loop
C37_Witness ==
    /\ loop = "stopped" /\ stoppedBy = "graceful"
    /\ confirm = {<<"al", "!", "u", "@", "h">>}
    /\ Len(timers) = 1
    /\ InLog("die", "stop")
====
